---------------------------- MODULE Spec2Model ----------------------------
(***************************************************************************)
(* State-machine model of the fitness monitor server:                      *)
(*   - CameraManager            (server/src/utils/camera_manager.py)       *)
(*   - MobileFrameProcessor     (server/src/utils/frame_processor.py)      *)
(*     and the /process_frame, /reset_analyzer routes (api/routes.py)      *)
(*   - SquatAnalyzerMobile      (server/src/analyzers/squat_analyzer.py)   *)
(*   - JumpAnalyzer             (server/src/analyzers/jump_analyzer.py)    *)
(* Each component has its own specification (SpecCamera, SpecMobile,       *)
(* SpecSquat, SpecJump) over the shared variable tuple; a specification    *)
(* leaves the other components' variables unchanged.                       *)
(***************************************************************************)
EXTENDS Integers, Sequences, FiniteSets, TLC

\* ------------------------------------------------------------------ bounds
\* Number of analyzer objects CameraManager.start() may construct in a run.
MaxInst == 2
\* Number of mobile analyzer objects that may be constructed for one mode.
MaxMade == 3
\* Squat frames are fed while fewer than MaxReps reps have been counted and
\* depth_hold is below MaxHold.
MaxReps == 2
MaxHold == 4
\* Jump frames are fed while steady_frames is below MaxSteady and fewer than
\* MaxFlight frames have followed a take-off.
MaxSteady == 6
MaxFlight == 8

\* Request-handling threads that call start()/stop() concurrently; the lock
\* serialises them, so two show every contention.
Clients == {1, 2}
\* The thread of a stream generator, which calls get_frame() in a loop.
Reader == 3
Insts == 1..MaxInst
Modes == {"squat", "jump"}

VARIABLES
    \* ---- CameraManager fields (camera_manager.py:30-35); 0 stands for None
    lock,            \* self.lock: 0 when free, else the caller holding it
    analyzer,        \* self.analyzer: 0 or the analyzer object
    analyzer_type,   \* self.analyzer_type: "none" or a mode
    frame,           \* self.frame: 0 or the analyzer object that produced it
    running,         \* self.running
    thread,          \* self.thread: 0 or the capture thread object
    \* ---- analyzer objects and capture threads created by start()
    ninst,           \* number of analyzer objects constructed so far
    cap,             \* cap[i]: video source of analyzer i
    akind,           \* akind[i]: mode analyzer i was constructed for
    tpc,             \* tpc[t]: position of capture thread t in _capture_loop
    tcur,            \* tcur[t]: analyzer whose read_frame() thread t is inside
    \* ---- callers of start()/stop()
    cpc,             \* cpc[c]: position of client c inside start()/stop()
    cop,             \* cop[c]: "none", "start" or "stop"
    carg,            \* carg[c]: analyzer_type argument of the start() in progress
    lastop,          \* the most recently returned start()/stop() call: the
                     \* operation, its argument, its result, where it returned
    \* ---- MobileFrameProcessor fields (frame_processor.py:29-31)
    mlock,           \* self._lock: 0 when free, else the request holding it
    registry,        \* registry[m]: self._squat_analyzer / self._jump_analyzer
    nmade,           \* nmade[m]: constructor calls made for mode m
    \* ---- /process_frame and /reset_analyzer requests (Flask threaded=True)
    rpc,             \* rpc[r]: position of request r in its handler
    rkind,           \* rkind[r]: "none", "process" or "reset"
    rmode,           \* rmode[r]: the request's mode
    rref,            \* rref[r]: the analyzer object the handler got
    \* ---- SquatAnalyzerMobile fields (squat_analyzer.py:372-380); angles are
    \* kept as 60 times their value, so that the mean of 1..5 integers is exact
    correct_counter,
    incorrect_counter,
    stage,           \* "none" (None), "S1", "S2" or "S3"
    sequence,        \* list of stages
    feedback,        \* "none" (None) or the message
    knee_history,    \* deque(maxlen=5) of raw knee angles
    back_history,    \* deque(maxlen=5) of raw back angles
    depth_hold,
    min_knee_angle,  \* 60 times the smallest smoothed knee angle
    \* ---- observers of the frames fed to the squat analyzer
    pat,             \* progress of the fed frames along S1.. S2.. S3 S3 S3.. rise
    nfed,            \* number of frames of the ten-frame scenario fed so far
    hist,            \* "fresh", "used" (frames processed) or "reset" (reset() since)
    exc,             \* observer: "s1" in stage S1, "out" in S2 since S1, else "none"
    sa,              \* the SquatAnalyzer (camera) fed the same frames side by side
    adj,             \* observer: the stage has only moved between neighbouring stages
    \* ---- JumpAnalyzer fields (jump_analyzer.py:238-251), one record; pixel
    \* heights are kept as 60 times their value, velocities as 60 * pixels/s
    jump,
    \* ---- observer of the nose heights fed to the jump analyzer
    flight,          \* 0, or 1 + the frames processed since the take-off frame
    jprev,           \* observer: self.state before the last frame, "none" before any
    \* ---- a call of JumpAnalyzer._finalize_jump (jump_analyzer.py:272-288)
    fin,             \* the call made, if any: peak_delta_pixels, cheat, the result
    ck,              \* the landing checked, if any: landmarks, peak, detector and result
    \* ---- JumpAnalyzerMobile fields (jump_analyzer.py:442-448), one record;
    \* heights are kept in units of 1/JmScale pixel
    jm,
    jmhist,          \* observer: "fresh", "used" (frames processed) or "reset"
    nema,            \* observer: baseline updates since construction or reset()
    \* ---- SquatAnalyzer speech fields (squat_analyzer.py:102, 109-115)
    last_feedback,   \* "none" (None) or the text last queued
    speech_queue,    \* self.speech_queue, oldest first; "none" is the None sentinel
    said,            \* observer: the texts _speak was called with, in order
    enqueued,        \* observer: the texts _speak put on speech_queue, in order
    stop_speech,     \* self._stop_speech
    engine,          \* the worker's engine: "unset", "ok", or "none" (init failed)
    wpc,             \* position of the speech worker in _speech_worker
    wtext,           \* the payload the worker holds, "none" when it holds none
    sunk,            \* observer: the sink calls made: the text, and whether it returned
    relpc,           \* position of the caller of release()
    \* ---- smoothing windows fed side by side
    knee_win,        \* a deque(maxlen=5): knee_history, back_history, y_history
    nose_win,        \* JumpAnalyzer.nose_history
    pushed,          \* observer: every value pushed, in order
    \* ---- the generator _stream_frames of one /video_feed request (routes.py:30-41)
    gpc,             \* position of the generator
    gmode,           \* its analyzer_type argument, "none" before it is called
    yielded,         \* observer: the analyzer object that produced the frame last
                     \* yielded, 0 when none was
    health           \* a /health request: its position and the two values it read

camVars == <<lock, analyzer, analyzer_type, frame, running, thread, ninst, cap,
             akind, tpc, tcur, cpc, cop, carg, lastop>>

mobVars == <<mlock, registry, nmade, rpc, rkind, rmode, rref>>

sqVars == <<correct_counter, incorrect_counter, stage, sequence, feedback,
            knee_history, back_history, depth_hold, min_knee_angle, pat, nfed,
            hist, exc, sa, adj>>

jmpVars == <<jump, flight, jprev>>

finVars == <<fin, ck>>

jmVars == <<jm, jmhist, nema>>

spVars == <<last_feedback, speech_queue, said, enqueued, stop_speech, engine,
            wpc, wtext, sunk, relpc>>

winVars == <<knee_win, nose_win, pushed>>

genVars == <<gpc, gmode, yielded, health>>

vars == <<camVars, mobVars, sqVars, jmpVars, finVars, jmVars, spVars, winVars,
          genVars>>

\* What the actions of one component leave alone: the other components.
notCam == <<mobVars, sqVars, jmpVars, finVars, jmVars, spVars, winVars,
          genVars>>
notMob == <<camVars, sqVars, jmpVars, finVars, jmVars, spVars, winVars,
          genVars>>
notSq == <<camVars, mobVars, jmpVars, finVars, jmVars, spVars, winVars,
          genVars>>
notJmp == <<camVars, mobVars, sqVars, finVars, jmVars, spVars, winVars,
          genVars>>
notFin == <<camVars, mobVars, sqVars, jmpVars, jmVars, spVars, winVars,
          genVars>>
notJm == <<camVars, mobVars, sqVars, jmpVars, finVars, spVars, winVars,
          genVars>>
notSp == <<camVars, mobVars, sqVars, jmpVars, finVars, jmVars, winVars,
          genVars>>
notWin == <<camVars, mobVars, sqVars, jmpVars, finVars, jmVars, spVars,
          genVars>>

\* What the generator leaves alone, besides the CameraManager.
notGen == <<mobVars, sqVars, jmpVars, finVars, jmVars, spVars, winVars>>

\* ================================================================ CameraManager

InitCamera ==
    /\ lock = 0
    /\ analyzer = 0
    /\ analyzer_type = "none"
    /\ frame = 0
    /\ running = FALSE
    /\ thread = 0
    /\ ninst = 0
    /\ cap = [i \in Insts |-> "unborn"]
    /\ akind = [i \in Insts |-> "none"]
    /\ tpc = [i \in Insts |-> "unborn"]
    /\ tcur = [i \in Insts |-> 0]
    /\ cpc = [c \in Clients |-> "idle"]
    /\ cop = [c \in Clients |-> "none"]
    /\ carg = [c \in Clients |-> "none"]
    /\ lastop = [op |-> "none", arg |-> "none", ret |-> "none", at |-> "none"]

\* A capture thread is alive from Thread.start() until _capture_loop returns.
Alive(t) == tpc[t] \in {"check", "call", "reading"}

\* Analyzer objects whose constructor has been entered by callers still in start().
StartsInProgress == Cardinality({c \in Clients : cop[c] = "start" /\ cpc[c] # "idle"})

\* Return from start()/stop(): leave the `with self.lock` block.
Return(c, ret) ==
    /\ lock' = 0
    /\ cpc' = [cpc EXCEPT ![c] = "idle"]
    /\ cop' = [cop EXCEPT ![c] = "none"]
    /\ carg' = [carg EXCEPT ![c] = "none"]
    /\ lastop' = [op |-> cop[c], arg |-> carg[c], ret |-> ret, at |-> cpc[c]]

Goto(c, pc) ==
    /\ cpc' = [cpc EXCEPT ![c] = pc]
    /\ UNCHANGED <<lock, cop, carg, lastop>>

\* start(): `with self.lock:` entered
StartAcquire(c, t) ==
    /\ cpc[c] = "idle"
    /\ lock = 0
    /\ ninst + StartsInProgress < MaxInst
    /\ lock' = c
    /\ cpc' = [cpc EXCEPT ![c] = "s_test"]
    /\ cop' = [cop EXCEPT ![c] = "start"]
    /\ carg' = [carg EXCEPT ![c] = t]
    /\ UNCHANGED <<analyzer, analyzer_type, frame, running, thread, ninst, cap,
                   akind, tpc, tcur, lastop>>
    /\ UNCHANGED notCam

\* Mutant of StartTest: the running analyzer is restarted whatever its type.
StartTest_Restart(c) ==
    /\ cpc[c] = "s_test"
    /\ Goto(c, "st_run")
    /\ UNCHANGED <<analyzer, analyzer_type, frame, running, thread, ninst, cap,
                   akind, tpc, tcur>>
    /\ UNCHANGED notCam

\* start(): same type already running -> return True, else fall into _stop_internal
StartTest(c) ==
    /\ cpc[c] = "s_test"
    /\ IF analyzer_type = carg[c] /\ running
          THEN Return(c, "true")
          ELSE Goto(c, "st_run")
    /\ UNCHANGED <<analyzer, analyzer_type, frame, running, thread, ninst, cap,
                   akind, tpc, tcur>>
    /\ UNCHANGED notCam

\* stop(): `with self.lock:` entered
StopAcquire(c) ==
    /\ cpc[c] = "idle"
    /\ lock = 0
    /\ lock' = c
    /\ cpc' = [cpc EXCEPT ![c] = "st_run"]
    /\ cop' = [cop EXCEPT ![c] = "stop"]
    /\ UNCHANGED <<analyzer, analyzer_type, frame, running, thread, ninst, cap,
                   akind, tpc, tcur, carg, lastop>>
    /\ UNCHANGED notCam

\* _stop_internal: self.running = False
StopRunning(c) ==
    /\ cpc[c] = "st_run"
    /\ running' = FALSE
    /\ Goto(c, "st_join")
    /\ UNCHANGED <<analyzer, analyzer_type, frame, thread, ninst, cap, akind,
                   tpc, tcur>>
    /\ UNCHANGED notCam

\* Mutant of JoinTimeout: join() without a timeout.
JoinTimeout_Never == FALSE

\* Thread.join(timeout=2.0) returns when the thread has ended, or when the two
\* seconds have passed whatever the thread is doing.
JoinTimeout == TRUE
JoinReturns(t) == ~Alive(t) \/ JoinTimeout

\* _stop_internal: if self.thread: join(timeout=2.0); self.thread = None
StopJoin(c) ==
    /\ cpc[c] = "st_join"
    /\ thread # 0 => JoinReturns(thread)
    /\ thread' = 0
    /\ Goto(c, "st_rel")
    /\ UNCHANGED <<analyzer, analyzer_type, frame, running, ninst, cap, akind,
                   tpc, tcur>>
    /\ UNCHANGED notCam

\* Mutant of ReleaseSource: release() leaves the video source open.
ReleaseSource_Leak(i) == cap

\* analyzer.release(): cap.release() closes the video source
ReleaseSource(i) == [cap EXCEPT ![i] = "released"]

\* _stop_internal: if self.analyzer: release(); self.analyzer = None
StopRelease(c) ==
    /\ cpc[c] = "st_rel"
    /\ cap' = IF analyzer # 0 THEN ReleaseSource(analyzer) ELSE cap
    /\ analyzer' = 0
    /\ Goto(c, "st_frame")
    /\ UNCHANGED <<analyzer_type, frame, running, thread, ninst, akind, tpc, tcur>>
    /\ UNCHANGED notCam

\* _stop_internal: self.frame = None
StopFrame(c) ==
    /\ cpc[c] = "st_frame"
    /\ frame' = 0
    /\ Goto(c, "st_type")
    /\ UNCHANGED <<analyzer, analyzer_type, running, thread, ninst, cap, akind,
                   tpc, tcur>>
    /\ UNCHANGED notCam

\* _stop_internal: self.analyzer_type = None; then back in start() or stop()
StopType(c) ==
    /\ cpc[c] = "st_type"
    /\ analyzer_type' = "none"
    /\ IF cop[c] = "start" THEN Goto(c, "s_new") ELSE Return(c, "none")
    /\ UNCHANGED <<analyzer, frame, running, thread, ninst, cap, akind, tpc, tcur>>
    /\ UNCHANGED notCam

\* start(): self.analyzer = analyzer_cls(): the camera opens, or does not, or
\* the constructor raises (except branch: return False).
StartConstruct(c) ==
    /\ cpc[c] = "s_new"
    /\ \E outcome \in {"open", "closed", "raise"} :
        /\ ninst' = ninst + 1
        /\ akind' = [akind EXCEPT ![ninst + 1] = carg[c]]
        /\ IF outcome = "raise"
              THEN /\ cap' = [cap EXCEPT ![ninst + 1] = "closed"]
                   /\ analyzer' = analyzer
                   /\ Return(c, "false")
              ELSE /\ cap' = [cap EXCEPT ![ninst + 1] = outcome]
                   /\ analyzer' = ninst + 1
                   /\ Goto(c, "s_isopen")
    /\ UNCHANGED <<analyzer_type, frame, running, thread, tpc, tcur>>
    /\ UNCHANGED notCam

\* start(): if not self.analyzer.is_opened(): self.analyzer = None; return False
StartIsOpened(c) ==
    /\ cpc[c] = "s_isopen"
    /\ IF cap[analyzer] = "open"
          THEN /\ Goto(c, "s_type")
               /\ analyzer' = analyzer
          ELSE /\ analyzer' = 0
               /\ Return(c, "false")
    /\ UNCHANGED <<analyzer_type, frame, running, thread, ninst, cap, akind,
                   tpc, tcur>>
    /\ UNCHANGED notCam

\* start(): self.analyzer_type = analyzer_type
StartType(c) ==
    /\ cpc[c] = "s_type"
    /\ analyzer_type' = carg[c]
    /\ Goto(c, "s_run")
    /\ UNCHANGED <<analyzer, frame, running, thread, ninst, cap, akind, tpc, tcur>>
    /\ UNCHANGED notCam

\* start(): self.running = True
StartRunning(c) ==
    /\ cpc[c] = "s_run"
    /\ running' = TRUE
    /\ Goto(c, "s_thread")
    /\ UNCHANGED <<analyzer, analyzer_type, frame, thread, ninst, cap, akind,
                   tpc, tcur>>
    /\ UNCHANGED notCam

\* start(): self.thread = Thread(target=self._capture_loop); start(); return True
\* The thread created for analyzer object i is thread i.
StartThread(c) ==
    /\ cpc[c] = "s_thread"
    /\ thread' = analyzer
    /\ tpc' = [tpc EXCEPT ![analyzer] = "check"]
    /\ Return(c, "true")
    /\ UNCHANGED <<analyzer, analyzer_type, frame, running, ninst, cap, akind, tcur>>
    /\ UNCHANGED notCam

\* _capture_loop: while self.running and self.analyzer and self.analyzer.is_opened()
LoopCheck(t) ==
    /\ tpc[t] = "check"
    /\ tpc' = [tpc EXCEPT ![t] =
                 IF running /\ analyzer # 0 /\ cap[analyzer] = "open"
                    THEN "call" ELSE "done"]
    /\ UNCHANGED <<lock, analyzer, analyzer_type, frame, running, thread, ninst,
                   cap, akind, tcur, cpc, cop, carg, lastop>>
    /\ UNCHANGED notCam

\* The analyzer object a capture thread calls read_frame() on: self.analyzer,
\* read when the call is made.
ReadTarget(t) == analyzer

\* _capture_loop: frame = self.analyzer.read_frame(); with self.analyzer None
\* the AttributeError is caught by `except Exception` and the loop breaks.
LoopCall(t) ==
    /\ tpc[t] = "call"
    /\ IF ReadTarget(t) = 0
          THEN /\ tpc' = [tpc EXCEPT ![t] = "done"]
               /\ tcur' = tcur
          ELSE /\ tpc' = [tpc EXCEPT ![t] = "reading"]
               /\ tcur' = [tcur EXCEPT ![t] = ReadTarget(t)]
    /\ UNCHANGED <<lock, analyzer, analyzer_type, frame, running, thread, ninst,
                   cap, akind, cpc, cop, carg, lastop>>
    /\ UNCHANGED notCam

\* read_frame() returns a frame (self.frame = frame.copy()), returns None
\* (time.sleep(0.01)) or raises (break).
LoopReadDone(t) ==
    /\ tpc[t] = "reading"
    /\ \E outcome \in {"frame", "none", "raise"} :
        /\ frame' = IF outcome = "frame" THEN tcur[t] ELSE frame
        /\ tpc' = [tpc EXCEPT ![t] = IF outcome = "raise" THEN "done" ELSE "check"]
    /\ tcur' = [tcur EXCEPT ![t] = 0]
    /\ UNCHANGED <<lock, analyzer, analyzer_type, running, thread, ninst, cap,
                   akind, cpc, cop, carg, lastop>>
    /\ UNCHANGED notCam

\* get_frame(): `with self.lock:` entered
GetFrameAcquire ==
    /\ lock = 0
    /\ lock' = Reader
    /\ UNCHANGED <<analyzer, analyzer_type, frame, running, thread, ninst,
                   cap, akind, tpc, tcur, cpc, cop, carg, lastop>>
    /\ UNCHANGED notCam

\* What get_frame() returns (lines 112-114): a copy of self.frame, or None (0)
GetFrameResult == frame

\* get_frame(): return, leaving the `with self.lock` block
GetFrameReturn ==
    /\ lock = Reader
    /\ lock' = 0
    /\ UNCHANGED <<analyzer, analyzer_type, frame, running, thread, ninst,
                   cap, akind, tpc, tcur, cpc, cop, carg, lastop>>
    /\ UNCHANGED notCam

NextCamera ==
    \/ GetFrameAcquire
    \/ GetFrameReturn
    \/ \E c \in Clients, t \in Modes : StartAcquire(c, t)
    \/ \E c \in Clients : StartTest(c)
    \/ \E c \in Clients : StopAcquire(c)
    \/ \E c \in Clients : StopRunning(c)
    \/ \E c \in Clients : StopJoin(c)
    \/ \E c \in Clients : StopRelease(c)
    \/ \E c \in Clients : StopFrame(c)
    \/ \E c \in Clients : StopType(c)
    \/ \E c \in Clients : StartConstruct(c)
    \/ \E c \in Clients : StartIsOpened(c)
    \/ \E c \in Clients : StartType(c)
    \/ \E c \in Clients : StartRunning(c)
    \/ \E c \in Clients : StartThread(c)
    \/ \E t \in Insts : LoopCheck(t)
    \/ \E t \in Insts : LoopCall(t)
    \/ \E t \in Insts : LoopReadDone(t)

\* ------------------------------------------------------- CameraManager claims

AliveThreads == {t \in Insts : Alive(t)}
OpenSources == {i \in Insts : cap[i] = "open"}

\* A start(B) has returned True, no start()/stop() is in progress, and a capture
\* thread had been started before for another mode A.
SwitchedTo(b) ==
    /\ lock = 0
    /\ lastop.op = "start" /\ lastop.arg = b /\ lastop.ret = "true"
    /\ \E i \in Insts : tpc[i] # "unborn" /\ akind[i] # b

\* C1: after start(A) then start(B), B # A, at most one capture thread running
\* _capture_loop is alive at every instant and get_analyzer_type() reports B,
\* also when the join in _stop_internal timed out.
C1_Exclusivity ==
    \A b \in Modes :
        SwitchedTo(b) => /\ Cardinality(AliveThreads) <= 1
                         /\ analyzer_type = b

\* C2: no two threads are inside read_frame() of the same analyzer object, and
\* a capture thread started for an earlier analyzer never calls read_frame() on
\* an analyzer installed by a later start().
C2_SingleReader ==
    /\ \A t1, t2 \in Insts :
          (tpc[t1] = "reading" /\ tpc[t2] = "reading" /\ t1 # t2)
              => tcur[t1] # tcur[t2]
    /\ \A t \in Insts : tpc[t] = "reading" => ~(tcur[t] > t)

\* C3: at every instant at most one analyzer object holds an open video source:
\* the previous analyzer's source is released before the next one is constructed.
C3_OneOpenSource == Cardinality(OpenSources) <= 1

\* C3 witness: a mode switch has happened: the earlier analyzer's source is
\* released and the later analyzer, of the other mode, holds an open source.
C3_Witness ==
    \E i, j \in Insts :
        /\ i < j
        /\ cap[i] = "released"
        /\ cap[j] = "open"
        /\ akind[i] # akind[j]
        /\ analyzer = j

\* C14: start() for the type that is active and running returns True and leaves
\* analyzer, thread, frame, running and analyzer_type as they are: no analyzer
\* is constructed or released, no capture thread is stopped or started.
C14_StartIdempotent ==
    [][ \A c \in Clients :
          (StartTest(c) /\ analyzer_type = carg[c] /\ running)
             => /\ cpc'[c] = "idle"
                /\ lastop'.op = "start" /\ lastop'.ret = "true"
                /\ UNCHANGED <<analyzer, thread, frame, running, analyzer_type,
                               ninst, cap, tpc>>
      ]_vars

\* C14 witness: a start() of the active type has returned True from the test
\* at the top of start(), with the analyzer and its capture thread as before.
C14_Witness ==
    /\ lastop.op = "start" /\ lastop.ret = "true" /\ lastop.at = "s_test"
    /\ running
    /\ analyzer # 0
    /\ analyzer_type = lastop.arg
    /\ thread = analyzer
    /\ ninst = 1

\* Client c returns from start() with False in this step.
StartFails(c) ==
    /\ cop[c] = "start"
    /\ cpc[c] # "idle"
    /\ cpc'[c] = "idle"
    /\ lastop'.ret = "false"

\* C15: when the new analyzer is not opened, or its constructor raises, start()
\* returns False and the manager is stopped: running False, analyzer_type and
\* analyzer None, no capture thread, and no frame for get_frame() to return.
C15_FailedStartStopped ==
    [][ \A c \in Clients :
          StartFails(c) => /\ ~running'
                           /\ analyzer_type' = "none"
                           /\ analyzer' = 0
                           /\ thread' = 0
                           /\ AliveThreads' = {}
                           /\ frame' = 0
      ]_vars

\* What start() itself guarantees when it fails: the fields it assigns.
FailedStartFields ==
    [][ \A c \in Clients :
          StartFails(c) => /\ ~running'
                           /\ analyzer_type' = "none"
                           /\ analyzer' = 0
                           /\ thread' = 0
      ]_vars

\* Capture thread t, the thread of the running analyzer, leaves _capture_loop
\* in this step although no stop() or start() is asking it to.
ExitsOnItsOwn(t) ==
    /\ Alive(t)
    /\ tpc'[t] = "done"
    /\ thread = t
    /\ running
    /\ lock = 0

\* C16: when the capture loop exits on its own, running becomes False, so that
\* is_running() does not report True for a dead capture loop.
C16_ExitClearsRunning ==
    [][ \A t \in Insts : ExitsOnItsOwn(t) => ~running' ]_vars

\* C17: get_frame() returns None or a frame of the analyzer that is installed;
\* when no analyzer is installed (after stop() or a failed start()) it returns
\* None, and never a frame captured by an analyzer of before.
C17_LatestFrame ==
    [][ GetFrameReturn => GetFrameResult \in {0, analyzer} ]_vars

\* The statements of start() and stop() inside `with self.lock`: the caller
\* that holds the lock runs them one after the other.
HolderStep(c) ==
    \/ StartTest(c) \/ StopRunning(c) \/ StopJoin(c) \/ StopRelease(c)
    \/ StopFrame(c) \/ StopType(c) \/ StartConstruct(c) \/ StartIsOpened(c)
    \/ StartType(c) \/ StartRunning(c) \/ StartThread(c)

\* A caller inside start(), stop() or get_frame() keeps executing; nothing is assumed of the
\* capture threads, which may stay inside read_frame() for ever.
CallersRun ==
    /\ \A c \in Clients : WF_vars(HolderStep(c))
    /\ WF_vars(GetFrameReturn)

\* C18: start() and stop() always return: a caller that has the lock releases
\* it, whatever the capture threads do, so the lock is never held for ever and
\* no start(), stop() or get_frame() is left waiting behind a dead holder.
C18_CallsReturn == (lock # 0) ~> (lock = 0)

\* C18 witness: a caller is at the join in _stop_internal while the capture
\* thread it joins is inside read_frame().
C18_Witness ==
    \E c \in Clients :
        /\ lock = c
        /\ cpc[c] = "st_join"
        /\ thread # 0
        /\ tpc[thread] = "reading"

\* C19: the lock is not held across a blocking call: no caller is at the join
\* of the capture thread, at analyzer.release() or at the analyzer constructor
\* while it holds the lock.
C19_NoBlockingUnderLock ==
    \A c \in Clients : cpc[c] \in {"st_join", "st_rel", "s_new"} => lock # c

\* The fields themselves: at every instant, in the middle of start() and stop()
\* included, running == True implies that analyzer_type and analyzer are set.
RunningHasAnalyzer ==
    running => (analyzer_type # "none" /\ analyzer # 0)

\* ------------------------------------------------ _stream_frames (routes.py)

InitStream ==
    /\ gpc = "idle"
    /\ gmode = "none"
    /\ yielded = 0
    /\ health = [pc |-> "idle", camera_running |-> FALSE, analyzer_type |-> "none"]

\* _stream_frames: camera_manager.start(cls, analyzer_type) has returned True
\* (line 32) and the generator goes on to its loop; a start() that returned
\* False ends the generator at once.
StreamBegin ==
    /\ gpc \in {"idle", "done"}
    /\ lastop.op = "start" /\ lastop.ret = "true"
    /\ gmode' = lastop.arg
    /\ gpc' = "running"
    /\ yielded' = 0
    /\ UNCHANGED camVars
    /\ UNCHANGED health
    /\ UNCHANGED notGen

\* line 35: `while camera_manager.running`, read without the lock
StreamRunning ==
    /\ gpc = "running"
    /\ gpc' = IF running THEN "type" ELSE "done"
    /\ UNCHANGED <<gmode, yielded>>
    /\ UNCHANGED camVars
    /\ UNCHANGED health
    /\ UNCHANGED notGen

\* line 35: `and camera_manager.analyzer_type == analyzer_type`
StreamType ==
    /\ gpc = "type"
    /\ gpc' = IF analyzer_type = gmode THEN "get" ELSE "done"
    /\ UNCHANGED <<gmode, yielded>>
    /\ UNCHANGED camVars
    /\ UNCHANGED health
    /\ UNCHANGED notGen

\* line 36: get_frame() enters `with self.lock`
StreamGet ==
    /\ gpc = "get"
    /\ lock = 0
    /\ lock' = Reader
    /\ gpc' = "held"
    /\ UNCHANGED <<gmode, yielded>>
    /\ UNCHANGED <<analyzer, analyzer_type, frame, running, thread, ninst,
                   cap, akind, tpc, tcur, cpc, cop, carg, lastop>>
    /\ UNCHANGED health
    /\ UNCHANGED notGen

\* lines 36-41: get_frame() returns a copy of self.frame or None; a frame is
\* encoded and, unless the encoder failed, yielded; then time.sleep(0.03)
StreamYield ==
    /\ gpc = "held"
    /\ lock = Reader
    /\ lock' = 0
    /\ \E encoded \in BOOLEAN :
          yielded' = IF GetFrameResult # 0 /\ encoded THEN GetFrameResult
                     ELSE yielded
    /\ gpc' = "running"
    /\ UNCHANGED gmode
    /\ UNCHANGED <<analyzer, analyzer_type, frame, running, thread, ninst,
                   cap, akind, tpc, tcur, cpc, cop, carg, lastop>>
    /\ UNCHANGED health
    /\ UNCHANGED notGen

NextStream ==
    \/ StreamBegin
    \/ StreamRunning
    \/ StreamType
    \/ StreamGet
    \/ StreamYield
    \/ \E c \in Clients, t \in Modes : StartAcquire(c, t)
    \/ \E c \in Clients : StartTest(c)
    \/ \E c \in Clients : StopAcquire(c)
    \/ \E c \in Clients : StopRunning(c)
    \/ \E c \in Clients : StopJoin(c)
    \/ \E c \in Clients : StopRelease(c)
    \/ \E c \in Clients : StopFrame(c)
    \/ \E c \in Clients : StopType(c)
    \/ \E c \in Clients : StartConstruct(c)
    \/ \E c \in Clients : StartIsOpened(c)
    \/ \E c \in Clients : StartType(c)
    \/ \E c \in Clients : StartRunning(c)
    \/ \E c \in Clients : StartThread(c)
    \/ \E t \in Insts : LoopCheck(t)
    \/ \E t \in Insts : LoopCall(t)
    \/ \E t \in Insts : LoopReadDone(t)

\* C39: the generator started for a mode only yields frames produced by an
\* analyzer of that mode, whatever the other requests and the capture threads
\* do in between.
C39_OwnModeOnly ==
    yielded # 0 => akind[yielded] = gmode

\* The generator has yielded a frame of the other mode after a completed
\* switch: that mode's analyzer is the one running, its capture thread is the
\* only one alive.
StreamCrossed ==
    /\ yielded # 0 /\ akind[yielded] # gmode
    /\ running /\ analyzer = yielded /\ analyzer_type = akind[yielded]
    /\ \A t \in Insts : Alive(t) => t = yielded

\* ----------------------------------------------------- /health (routes.py)

\* health(), line 174: camera_manager.is_running() (camera_manager.py:116-118),
\* a read of self.running without the lock
HealthRunning ==
    /\ health.pc \in {"idle", "done"}
    /\ health' = [pc |-> "type", camera_running |-> running,
                  analyzer_type |-> "none"]
    /\ UNCHANGED <<gpc, gmode, yielded>>
    /\ UNCHANGED camVars
    /\ UNCHANGED notGen

\* health(), line 175: camera_manager.get_analyzer_type() (120-122), a read of
\* self.analyzer_type without the lock; the response is then returned
HealthType ==
    /\ health.pc = "type"
    /\ health' = [health EXCEPT !.pc = "done", !.analyzer_type = analyzer_type]
    /\ UNCHANGED <<gpc, gmode, yielded>>
    /\ UNCHANGED camVars
    /\ UNCHANGED notGen

NextHealth ==
    \/ HealthRunning
    \/ HealthType
    \/ \E c \in Clients, t \in Modes : StartAcquire(c, t)
    \/ \E c \in Clients : StartTest(c)
    \/ \E c \in Clients : StopAcquire(c)
    \/ \E c \in Clients : StopRunning(c)
    \/ \E c \in Clients : StopJoin(c)
    \/ \E c \in Clients : StopRelease(c)
    \/ \E c \in Clients : StopFrame(c)
    \/ \E c \in Clients : StopType(c)
    \/ \E c \in Clients : StartConstruct(c)
    \/ \E c \in Clients : StartIsOpened(c)
    \/ \E c \in Clients : StartType(c)
    \/ \E c \in Clients : StartRunning(c)
    \/ \E c \in Clients : StartThread(c)
    \/ \E t \in Insts : LoopCheck(t)
    \/ \E t \in Insts : LoopCall(t)
    \/ \E t \in Insts : LoopReadDone(t)

\* C38: the state is consistent at every instant, as the fields are and as the
\* lock-free readers and /health see it: running == True implies that
\* analyzer_type and analyzer are not None, and a /health response with
\* camera_running true names an analyzer_type.
C38_ConsistentState ==
    /\ running => (analyzer_type # "none" /\ analyzer # 0)
    /\ (health.pc = "done" /\ health.camera_running)
          => health.analyzer_type # "none"

\* A /health response that says the camera is running and names no analyzer,
\* returned while the fields are consistent.
HealthTorn ==
    /\ health.pc = "done"
    /\ health.camera_running /\ health.analyzer_type = "none"
    /\ RunningHasAnalyzer

\* ========================================================= MobileFrameProcessor

\* Concurrent request handlers of the threaded Flask server.
Reqs == {1, 2, 3}

InitMobile ==
    /\ mlock = 0
    /\ registry = [m \in Modes |-> 0]
    /\ nmade = [m \in Modes |-> 0]
    /\ rpc = [r \in Reqs |-> "idle"]
    /\ rkind = [r \in Reqs |-> "none"]
    /\ rmode = [r \in Reqs |-> "none"]
    /\ rref = [r \in Reqs |-> 0]

\* Mutant of MobileLockFree: the lookup is entered without taking self._lock.
MobileLockFree_Ignored == TRUE

\* `with self._lock:` can be entered
MobileLockFree == mlock = 0

\* routes.py process_frame (mode from the JSON body, frame decoded) or
\* reset_analyzer: the handler is about to call get_*_analyzer().
ReqBegin(r, k, m) ==
    /\ rpc[r] = "idle"
    /\ rpc' = [rpc EXCEPT ![r] = "get_acq"]
    /\ rkind' = [rkind EXCEPT ![r] = k]
    /\ rmode' = [rmode EXCEPT ![r] = m]
    /\ rref' = [rref EXCEPT ![r] = 0]
    /\ UNCHANGED <<mlock, registry, nmade>>
    /\ UNCHANGED notMob

\* get_*_analyzer: with self._lock:
GetAcquire(r) ==
    /\ rpc[r] = "get_acq"
    /\ MobileLockFree
    /\ mlock' = r
    /\ rpc' = [rpc EXCEPT ![r] = "get_test"]
    /\ UNCHANGED <<registry, nmade, rkind, rmode, rref>>
    /\ UNCHANGED notMob

\* get_*_analyzer: if self._x_analyzer is None
GetTest(r) ==
    /\ rpc[r] = "get_test"
    /\ rpc' = [rpc EXCEPT ![r] =
                 IF registry[rmode[r]] = 0 THEN "get_new" ELSE "get_ret"]
    /\ UNCHANGED <<mlock, registry, nmade, rkind, rmode, rref>>
    /\ UNCHANGED notMob

\* get_*_analyzer: self._x_analyzer = XAnalyzerMobile()
GetConstruct(r) ==
    /\ rpc[r] = "get_new"
    /\ nmade[rmode[r]] < MaxMade
    /\ nmade' = [nmade EXCEPT ![rmode[r]] = @ + 1]
    /\ registry' = [registry EXCEPT ![rmode[r]] = nmade[rmode[r]] + 1]
    /\ rpc' = [rpc EXCEPT ![r] = "get_ret"]
    /\ UNCHANGED <<mlock, rkind, rmode, rref>>
    /\ UNCHANGED notMob

\* get_*_analyzer: return self._x_analyzer (leaving the with block)
GetReturn(r) ==
    /\ rpc[r] = "get_ret"
    /\ rref' = [rref EXCEPT ![r] = registry[rmode[r]]]
    /\ mlock' = IF mlock = r THEN 0 ELSE mlock
    /\ rpc' = [rpc EXCEPT ![r] = "call"]
    /\ UNCHANGED <<registry, nmade, rkind, rmode>>
    /\ UNCHANGED notMob

\* What a handler waits for before calling process_frame()/reset() on the
\* analyzer it got: nothing (routes.py:125, frame_processor.py:60,65).
MayEnter(r) == TRUE

\* analyzer.process_frame(frame) / analyzer.reset() is entered
CallEnter(r) ==
    /\ rpc[r] = "call"
    /\ MayEnter(r)
    /\ rpc' = [rpc EXCEPT ![r] = "in"]
    /\ UNCHANGED <<mlock, registry, nmade, rkind, rmode, rref>>
    /\ UNCHANGED notMob

\* analyzer.process_frame(frame) / analyzer.reset() returns; the handler answers
CallExit(r) ==
    /\ rpc[r] = "in"
    /\ rpc' = [rpc EXCEPT ![r] = "idle"]
    /\ rkind' = [rkind EXCEPT ![r] = "none"]
    /\ rmode' = [rmode EXCEPT ![r] = "none"]
    /\ rref' = [rref EXCEPT ![r] = 0]
    /\ UNCHANGED <<mlock, registry, nmade>>
    /\ UNCHANGED notMob

NextMobile ==
    \/ \E r \in Reqs, k \in {"process", "reset"}, m \in Modes : ReqBegin(r, k, m)
    \/ \E r \in Reqs : GetAcquire(r)
    \/ \E r \in Reqs : GetTest(r)
    \/ \E r \in Reqs : GetConstruct(r)
    \/ \E r \in Reqs : GetReturn(r)
    \/ \E r \in Reqs : CallEnter(r)
    \/ \E r \in Reqs : CallExit(r)

\* -------------------------------------------------- MobileFrameProcessor claims

\* C4: no two concurrent requests for the same mode are inside process_frame()
\* or reset() of the shared mobile analyzer at the same time.
C4_Serialized ==
    \A r1, r2 \in Reqs :
        (r1 # r2 /\ rpc[r1] = "in" /\ rpc[r2] = "in") => rmode[r1] # rmode[r2]

\* C5: the constructor of a mode runs at most once and every get_*_analyzer call
\* for that mode, from a process or a reset request, returns that one object.
C5_OnePerMode ==
    /\ \A m \in Modes : nmade[m] <= 1
    /\ \A r \in Reqs : rpc[r] \in {"call", "in"} =>
          /\ rref[r] = 1
          /\ rref[r] = registry[rmode[r]]

\* C5 witness: a reset request and a process request of one mode, and a third
\* request, all hold the analyzer of that mode after racing through the lookup.
C5_Witness ==
    \E r1, r2, r3 \in Reqs :
        /\ r1 # r2 /\ r2 # r3 /\ r1 # r3
        /\ rkind[r1] = "reset" /\ rkind[r2] = "process"
        /\ rmode[r1] = rmode[r2] /\ rmode[r2] = rmode[r3]
        /\ \A r \in {r1, r2, r3} : rpc[r] \in {"call", "in"} /\ rref[r] = 1

\* ========================================================== SquatAnalyzerMobile

STAGE_S1_THRESHOLD == 160
STAGE_S2_THRESHOLD == 95
RISE_THRESHOLD == 100
HISTORY_LEN == 5
MIN_KNEE_INIT == 180

Stages == {"S1", "S2", "S3"}

\* Raw angles _calculate_angle may return (degrees in [0, 180]) that are fed.
KneeAngles == {0, 90, 180}
BackAngles == {40}

\* __init__ (lines 372-380): the fields of a freshly constructed analyzer
FreshSquat ==
    /\ correct_counter = 0
    /\ incorrect_counter = 0
    /\ stage = "none"
    /\ sequence = <<>>
    /\ feedback = "none"
    /\ knee_history = <<>>
    /\ back_history = <<>>
    /\ depth_hold = 0
    /\ min_knee_angle = 60 * MIN_KNEE_INIT

\* SquatAnalyzer._init_counters (lines 96-107)
FreshCamera ==
    [correct_counter |-> 0, incorrect_counter |-> 0, stage |-> "none",
     sequence |-> <<>>, feedback |-> "none", knee_history |-> <<>>,
     back_history |-> <<>>, depth_hold |-> 0,
     min_knee_angle |-> 60 * 180]

InitSquat ==
    /\ FreshSquat
    /\ pat = "start"
    /\ nfed = 0
    /\ hist = "fresh"
    /\ exc = "none"
    /\ sa = FreshCamera
    /\ adj = TRUE

RECURSIVE SumSeq(_)
SumSeq(h) == IF h = <<>> THEN 0 ELSE Head(h) + SumSeq(Tail(h))

\* Mutant of Push: the window has no capacity, nothing is evicted.
Push_Unbounded(h, v) == Append(h, v)

\* deque(maxlen=5).append
Push(h, v) == IF Len(h) < HISTORY_LEN THEN Append(h, v) ELSE Append(Tail(h), v)

\* Mutant of Mean60: no smoothing, the newest sample is used as it is.
Mean60_Newest(h) == 60 * h[Len(h)]

\* 60 * (sum(history) / len(history)), exact for 1..5 integer samples
Mean60(h) == (60 \div Len(h)) * SumSeq(h)

Min2(a, b) == IF a < b THEN a ELSE b

\* lines 442-447: the stage of a smoothed knee angle
StageOf(k60) ==
    IF k60 > 60 * STAGE_S1_THRESHOLD THEN "S1"
    ELSE IF k60 > 60 * STAGE_S2_THRESHOLD THEN "S2"
    ELSE "S3"

\* self.sequence[-3:]
Last3(seq) == IF Len(seq) >= 3 THEN SubSeq(seq, Len(seq) - 2, Len(seq)) ELSE seq

Contains(seq, x) == \E i \in 1..Len(seq) : seq[i] = x

\* Mutant of SeqAfter: the stage of every frame is appended.
SeqAfter_Always(seq, prev, st) == Append(seq, st)

\* lines 449-450: append the stage when it changed
SeqAfter(seq, prev, st) == IF prev # st THEN Append(seq, st) ELSE seq

\* Mutant of HoldAfter: the depth hold is reset on a frame outside S3.
HoldAfter_Reset(dh, st) == IF st = "S3" THEN dh + 1 ELSE 0

\* Mutant of HoldAfter: the depth hold stops counting at the three frames a rep
\* needs.
HoldAfter_Saturating(dh, st) == IF st = "S3" /\ dh < 3 THEN dh + 1 ELSE dh

\* lines 453-457: depth hold counts the frames in S3
HoldAfter(dh, st) == IF st = "S3" THEN dh + 1 ELSE dh

\* Mutant of Resolution: the [S2,S3,S2] branch accepts a depth hold of 2.
Resolution_ShortHold(seq, dh, k60) ==
    IF Len(seq) >= 3 /\ Last3(seq) = <<"S1", "S2", "S3">> /\ dh >= 3
    THEN IF k60 > 60 * RISE_THRESHOLD THEN "correct" ELSE "nothing"
    ELSE IF Len(seq) >= 3 /\ Last3(seq) = <<"S2", "S3", "S2">>
            /\ dh >= 2
    THEN "correct"
    ELSE IF Len(seq) >= 3 /\ seq[Len(seq)] = "S1"
    THEN IF seq # <<"S1">> /\ ~Contains(seq, "S3") THEN "incomplete"
         ELSE IF seq # <<"S1">> /\ dh < 3 THEN "hold"
         ELSE "clear"
    ELSE "nothing"

\* Mutant of Resolution: a sequence back at S1 that went through S3 is counted
\* incorrect whatever the depth hold.
Resolution_NoClear(seq, dh, k60) ==
    IF Len(seq) >= 3 /\ Last3(seq) = <<"S1", "S2", "S3">> /\ dh >= 3
    THEN IF k60 > 60 * RISE_THRESHOLD THEN "correct" ELSE "nothing"
    ELSE IF Len(seq) >= 3 /\ Last3(seq) = <<"S2", "S3", "S2">>
            /\ dh >= 3
    THEN "correct"
    ELSE IF Len(seq) >= 3 /\ seq[Len(seq)] = "S1"
    THEN IF seq # <<"S1">> /\ ~Contains(seq, "S3") THEN "incomplete"
         ELSE "hold"
    ELSE "nothing"

\* lines 461-483: the branch of the rep resolution taken for the sequence, depth
\* hold and smoothed knee angle of this frame
Resolution(seq, dh, k60) ==
    IF Len(seq) >= 3 /\ Last3(seq) = <<"S1", "S2", "S3">> /\ dh >= 3
    THEN IF k60 > 60 * RISE_THRESHOLD THEN "correct" ELSE "nothing"
    ELSE IF Len(seq) >= 3 /\ Last3(seq) = <<"S2", "S3", "S2">>
            /\ dh >= 3
    THEN "correct"
    ELSE IF Len(seq) >= 3 /\ seq[Len(seq)] = "S1"
    THEN IF seq # <<"S1">> /\ ~Contains(seq, "S3") THEN "incomplete"
         ELSE IF seq # <<"S1">> /\ dh < 3 THEN "hold"
         ELSE "clear"
    ELSE "nothing"

\* feedback set by the resolution branch (lines 459, 464, 471, 478, 481)
ResolutionFeedback(br) ==
    CASE br = "correct" -> "Correct Squat"
      [] br = "incomplete" -> "Incomplete Squat - Go deeper"
      [] br = "hold" -> "Hold at bottom longer"
      [] OTHER -> "none"

\* Mutant of FormFeedback: the feedback of a resolved rep is not overridden.
FormFeedback_KeepsResolution(fb, b60, st, k60, mk60, kot) ==
    IF fb # "none" THEN fb
    ELSE IF kot THEN "Knees over toes"
    ELSE IF b60 < 60 * 25 THEN "Bend forward"
    ELSE IF b60 > 60 * 50 THEN "Bend backwards"
    ELSE IF st = "S2" /\ k60 > 60 * 80 THEN "Lower your hips"
    ELSE IF st = "S3" /\ k60 < 60 * 50 THEN "Squat too deep"
    ELSE IF st = "S3" /\ mk60 > 60 * 60 THEN "Raise deeper"
    ELSE fb

\* lines 485-496: form feedback overrides
FormFeedback(fb, b60, st, k60, mk60, kot) ==
    LET f1 == IF b60 < 60 * 25 THEN "Bend forward"
              ELSE IF b60 > 60 * 50 THEN "Bend backwards"
              ELSE IF st = "S2" /\ k60 > 60 * 80 THEN "Lower your hips"
              ELSE IF st = "S3" /\ k60 < 60 * 50 THEN "Squat too deep"
              ELSE IF st = "S3" /\ mk60 > 60 * 60 THEN "Raise deeper"
              ELSE fb
    IN IF kot THEN "Knees over toes" ELSE f1

\* lines 463-483 and 485-497: the assignments of a visible frame, given the
\* smoothed angles k60, b60, the stage st, the sequence seq and depth hold dh
\* after the stage update, and the resolution branch br
Commit(kh, bh, k60, b60, st, seq, dh, br, mk, kot) ==
    /\ knee_history' = kh
    /\ back_history' = bh
    /\ stage' = st
    /\ correct_counter' = IF br = "correct" THEN correct_counter + 1
                          ELSE correct_counter
    /\ incorrect_counter' = IF br \in {"incomplete", "hold"}
                            THEN incorrect_counter + 1
                            ELSE incorrect_counter
    /\ sequence' = IF br = "nothing" THEN seq ELSE <<>>
    /\ depth_hold' = IF br = "nothing" THEN dh ELSE 0
    /\ min_knee_angle' = mk
    /\ feedback' = FormFeedback(ResolutionFeedback(br), b60, st, k60, mk, kot)

Resolved(kh, bh, k60, b60, st, seq, dh, br, kot) ==
    Commit(kh, bh, k60, b60, st, seq, dh, br,
           IF br = "correct" THEN 60 * MIN_KNEE_INIT ELSE Min2(min_knee_angle, k60),
           kot)

Tracked(kh, bh, k60, b60, st, seq, dh, kot) ==
    Resolved(kh, bh, k60, b60, st, seq, dh, Resolution(seq, dh, k60), kot)

Staged(kh, bh, k60, b60, st, kot) ==
    Tracked(kh, bh, k60, b60, st, SeqAfter(sequence, stage, st),
            HoldAfter(depth_hold, st), kot)

Smoothed(kh, bh, k60, b60, kot) == Staged(kh, bh, k60, b60, StageOf(k60), kot)

\* Mutant of Invisible: an invisible frame also drops the smoothing windows.
Invisible_DropsWindows ==
    /\ feedback' = "Please make your full body visible"
    /\ knee_history' = <<>>
    /\ back_history' = <<>>
    /\ UNCHANGED <<correct_counter, incorrect_counter, stage, sequence,
                   depth_hold, min_knee_angle>>

\* lines 498-501: no pose, or one of the four landmarks with visibility <= 0.8
Invisible ==
    /\ feedback' = "Please make your full body visible"
    /\ UNCHANGED <<correct_counter, incorrect_counter, stage, sequence,
                   knee_history, back_history, depth_hold, min_knee_angle>>

ProcessFrame(vis, knee, back, kot) ==
    IF ~vis
    THEN Invisible
    ELSE Smoothed(Push(knee_history, knee), Push(back_history, back),
                  Mean60(Push(knee_history, knee)), Mean60(Push(back_history, back)),
                  kot)

\* Observer: reset() of a used analyzer is remembered until the next frame.
HistAfterReset(h) == IF h = "fresh" THEN "fresh" ELSE "reset"

\* Mutant of SquatReset: the two smoothing windows are not cleared.
SquatReset_KeepsWindows ==
    /\ correct_counter' = 0
    /\ incorrect_counter' = 0
    /\ sequence' = <<>>
    /\ stage' = "none"
    /\ depth_hold' = 0
    /\ min_knee_angle' = 60 * MIN_KNEE_INIT
    /\ feedback' = "none"
    /\ UNCHANGED <<knee_history, back_history>>
    /\ pat' = "start"
    /\ nfed' = 0
    /\ hist' = HistAfterReset(hist)
    /\ exc' = "none"
    /\ UNCHANGED <<sa, adj>>
    /\ UNCHANGED notSq

\* reset() (lines 525-535)
SquatReset ==
    /\ correct_counter' = 0
    /\ incorrect_counter' = 0
    /\ sequence' = <<>>
    /\ stage' = "none"
    /\ depth_hold' = 0
    /\ min_knee_angle' = 60 * MIN_KNEE_INIT
    /\ feedback' = "none"
    /\ knee_history' = <<>>
    /\ back_history' = <<>>
    /\ pat' = "start"
    /\ nfed' = 0
    /\ hist' = HistAfterReset(hist)
    /\ exc' = "none"
    /\ UNCHANGED <<sa, adj>>
    /\ UNCHANGED notSq

\* Observer: how far the visible frames fed since construction or reset() follow
\* "stage S1, then S2, then S3 for three or more frames, then a frame with a
\* smoothed knee angle above 100"; st and k60 are those of the frame just fed.
PatAfter(p, st, k60) ==
    CASE p = "start" -> IF st = "S1" THEN "s1" ELSE "off"
      [] p = "s1" -> IF st = "S1" THEN "s1" ELSE IF st = "S2" THEN "s2" ELSE "off"
      [] p = "s2" -> IF st = "S2" THEN "s2" ELSE IF st = "S3" THEN "hold1" ELSE "off"
      [] p = "hold1" -> IF st = "S3" THEN "hold2" ELSE "off"
      [] p = "hold2" -> IF st = "S3" THEN "hold3" ELSE "off"
      [] p = "hold3" -> IF st = "S3" THEN "hold3"
                        ELSE IF k60 > 60 * 100 THEN "risen" ELSE "off"
      [] OTHER -> "off"

\* Observer: a shallow excursion is under way ("out") while the stage is S2
\* and has been S2 since it last was S1; st is the stage after the frame.
ExcAfter(e, st) ==
    IF st = "S1" THEN "s1"
    ELSE IF st = "S2" /\ e \in {"s1", "out"} THEN "out"
    ELSE "none"

\* Frames are fed while the counters are within the bounds of the model.
WithinSquatBounds ==
    /\ correct_counter + incorrect_counter < MaxReps
    /\ depth_hold < MaxHold

\* One /process_frame request served by the squat analyzer.
SquatFrame(vis, knee, back, kot) ==
    /\ WithinSquatBounds
    /\ ProcessFrame(vis, knee, back, kot)
    /\ pat' = IF vis THEN PatAfter(pat, stage', Mean60(knee_history')) ELSE pat
    /\ hist' = "used"
    /\ exc' = ExcAfter(exc, stage')
    /\ UNCHANGED <<sa, adj>>
    /\ UNCHANGED nfed
    /\ UNCHANGED notSq

NextSquat ==
    \/ \E knee \in KneeAngles, back \in BackAngles :
          SquatFrame(TRUE, knee, back, FALSE)
    \/ SquatFrame(FALSE, 0, 0, FALSE)
    \/ SquatReset

\* ------------------------------------------- SquatAnalyzer.read_frame (camera)

\* lines 284-312: the branch of the camera's rep resolution
CameraResolution(seq, dh) ==
    IF Len(seq) >= 3 /\ Last3(seq) = <<"S2", "S3", "S2">> /\ dh >= 3
    THEN "correct"
    ELSE IF Len(seq) >= 4 /\ Contains(seq, "S3") /\ seq[Len(seq)] = "S1"
            /\ dh >= 3
    THEN "correct"
    ELSE IF Len(seq) >= 3 /\ seq[Len(seq)] = "S1"
    THEN IF seq # <<"S1">> /\ ~Contains(seq, "S3") THEN "incomplete"
         ELSE IF seq # <<"S1">> /\ dh < 3 THEN "hold"
         ELSE "clear"
    ELSE "nothing"

\* feedback set by the camera's resolution branch (lines 238, 289, 299, 307, 310)
CameraFeedback(br) ==
    CASE br = "correct" -> "Correct Squat"
      [] br = "incomplete" -> "Incomplete - Go deeper"
      [] br = "hold" -> "Hold at bottom longer"
      [] OTHER -> "none"

\* lines 246-331: a frame with the four landmarks visible
CameraVisible(s, knee, back, kot) ==
    LET kh == Push(s.knee_history, knee)
        bh == Push(s.back_history, back)
        k60 == Mean60(kh)
        b60 == Mean60(bh)
        mk0 == Min2(s.min_knee_angle, k60)
        st == StageOf(k60)
        seq == SeqAfter(s.sequence, s.stage, st)
        dh == HoldAfter(s.depth_hold, st)
        br == CameraResolution(seq, dh)
        mk == IF br = "correct" THEN 60 * 180 ELSE mk0
    IN [correct_counter |-> IF br = "correct" THEN s.correct_counter + 1
                            ELSE s.correct_counter,
        incorrect_counter |-> IF br \in {"incomplete", "hold"}
                              THEN s.incorrect_counter + 1
                              ELSE s.incorrect_counter,
        stage |-> st,
        sequence |-> IF br = "nothing" THEN seq ELSE <<>>,
        feedback |-> FormFeedback(CameraFeedback(br), b60, st, k60, mk, kot),
        knee_history |-> kh,
        back_history |-> bh,
        depth_hold |-> IF br = "nothing" THEN dh ELSE 0,
        min_knee_angle |-> mk]

\* lines 332-339: no pose, or a landmark with visibility <= 0.8
CameraInvisible(s) ==
    [s EXCEPT !.feedback = "Please make your full body visible"]

\* read_frame (lines 221-352) on a frame the camera delivered
SquatReadFrame(s, vis, knee, back, kot) ==
    IF vis THEN CameraVisible(s, knee, back, kot) ELSE CameraInvisible(s)

\* Observer: a move of the stage is between neighbouring stages.
Neighbours(a, b) ==
    \/ a = "none"
    \/ a = b
    \/ {a, b} = {"S1", "S2"}
    \/ {a, b} = {"S2", "S3"}

\* The two analyzers, each freshly constructed, are fed the same frame.
PairFrame(vis, knee, back, kot) ==
    /\ WithinSquatBounds
    /\ sa.correct_counter + sa.incorrect_counter < MaxReps
    /\ sa.depth_hold < MaxHold
    /\ ProcessFrame(vis, knee, back, kot)
    /\ sa' = SquatReadFrame(sa, vis, knee, back, kot)
    /\ adj' = (adj /\ Neighbours(stage, stage'))
    /\ pat' = IF vis THEN PatAfter(pat, stage', Mean60(knee_history')) ELSE pat
    /\ hist' = "used"
    /\ exc' = ExcAfter(exc, stage')
    /\ UNCHANGED nfed
    /\ UNCHANGED notSq

NextPair ==
    \/ \E knee \in KneeAngles, back \in BackAngles :
          PairFrame(TRUE, knee, back, FALSE)
    \/ PairFrame(FALSE, 0, 0, FALSE)

\* C36: as long as the stage has only moved between neighbouring stages, the
\* camera analyzer and the mobile analyzer fed the same frames from their
\* initial states have equal correct_counter, incorrect_counter, sequence and
\* depth_hold after every frame.
C36_RuleSetsAgree ==
    adj => /\ sa.correct_counter = correct_counter
           /\ sa.incorrect_counter = incorrect_counter
           /\ sa.sequence = sequence
           /\ sa.depth_hold = depth_hold

\* Both analyzers have counted a correct and an incorrect rep of a motion
\* through neighbouring stages.
C36_Witness ==
    /\ adj
    /\ correct_counter = 1 /\ sa.correct_counter = 1
    /\ incorrect_counter = 1 /\ sa.incorrect_counter = 1

\* The restriction matters: after a jump of the stage from S1 to S3 or back
\* the two counters can differ.
PairDiverges ==
    /\ ~adj
    /\ sa.correct_counter # correct_counter


\* The ten-frame scenario: raw knee angles of fully visible frames fed to a fresh
\* analyzer; the back angle and the ankle position of a frame are free.
ScenarioKnee == <<170, 170, 140, 100, 90, 90, 90, 110, 150, 170>>
ScenarioBack == {20, 40, 60}

\* Squats with every posture: the back angle is one of ScenarioBack throughout
\* (so the smoothed back angle is that angle), the ankle is ahead of the knee
\* or not in each frame, the raw knee angle is 0 or 180.
SteadyBack(back) == \A i \in 1..Len(back_history) : back_history[i] = back

FormFrame(knee, back, kot) == SteadyBack(back) /\ SquatFrame(TRUE, knee, back, kot)

NextForm ==
    \E knee \in {0, 180}, back \in ScenarioBack, kot \in BOOLEAN :
        FormFrame(knee, back, kot)

ScenarioFrame ==
    /\ nfed < Len(ScenarioKnee)
    /\ \E back \in ScenarioBack, kot \in BOOLEAN :
          ProcessFrame(TRUE, ScenarioKnee[nfed + 1], back, kot)
    /\ nfed' = nfed + 1
    /\ pat' = PatAfter(pat, stage', Mean60(knee_history'))
    /\ hist' = "used"
    /\ exc' = ExcAfter(exc, stage')
    /\ UNCHANGED <<sa, adj>>
    /\ UNCHANGED notSq

NextScenario == ScenarioFrame

\* --------------------------------------------------- SquatAnalyzerMobile claims

\* The two recognised patterns, on the sequence, depth hold and smoothed knee
\* angle a frame has after its stage update.
RecognisedPattern(seq, dh, k60) ==
    \/ /\ Len(seq) >= 3
       /\ SubSeq(seq, Len(seq) - 2, Len(seq)) = <<"S1", "S2", "S3">>
       /\ dh >= 3
       /\ k60 > 60 * 100
    \/ /\ Len(seq) >= 3
       /\ SubSeq(seq, Len(seq) - 2, Len(seq)) = <<"S2", "S3", "S2">>
       /\ dh >= 3

\* C6: in every frame correct_counter increases, by exactly 1, if and only if
\* after the frame's stage update the last three sequence entries are [S1,S2,S3]
\* with depth_hold >= 3 and smoothed knee angle > 100, or are [S2,S3,S2] with
\* depth_hold >= 3; a frame without a visible body never increases it.
C6_CorrectIffPattern ==
    [][ /\ \A knee \in KneeAngles, back \in BackAngles :
              SquatFrame(TRUE, knee, back, FALSE) =>
                 LET seq == IF stage' # stage THEN Append(sequence, stage')
                                              ELSE sequence
                     dh == IF stage' = "S3" THEN depth_hold + 1 ELSE depth_hold
                     k60 == Mean60(knee_history')
                 IN /\ correct_counter' \in {correct_counter, correct_counter + 1}
                    /\ (correct_counter' = correct_counter + 1)
                          <=> RecognisedPattern(seq, dh, k60)
        /\ SquatFrame(FALSE, 0, 0, FALSE) => correct_counter' = correct_counter
      ]_vars

\* C6 witness: a frame has just counted a correct rep.
C6_Witness ==
    /\ correct_counter = 1
    /\ incorrect_counter = 0
    /\ sequence = <<>>
    /\ depth_hold = 0
    /\ stage = "S2"

\* C7: from a fresh analyzer, frames whose smoothed stages are S1, then S2, then
\* S3 for at least three consecutive frames, followed by a frame with a smoothed
\* knee angle above 100, end with correct_counter = 1, incorrect_counter = 0 and
\* an empty sequence.
C7_OneRepAfterHold ==
    pat = "risen" => /\ correct_counter = 1
                     /\ incorrect_counter = 0
                     /\ sequence = <<>>

\* C7 witness: such a frame sequence has been fed.
C7_Witness == pat = "risen" /\ Len(knee_history) = HISTORY_LEN

\* The sequence and the depth hold of a visible frame after its stage update
\* (lines 449-457), from the fields before the frame and the stage after it.
SeqNow == SeqAfter(sequence, stage, stage')
HoldNow == HoldAfter(depth_hold, stage')

\* One of the two correct-rep conditions (lines 461, 468-469) holds.
CorrectBranch(seq, dh) ==
    /\ Len(seq) >= 3
    /\ dh >= 3
    /\ Last3(seq) \in {<<"S1", "S2", "S3">>, <<"S2", "S3", "S2">>}

\* C26: on a visible frame where neither correct-rep branch applies and the
\* sequence has length >= 3 and ends in S1, incorrect_counter increases by 1 if
\* the sequence holds no S3, else by 1 if depth_hold < 3, else no counter
\* changes; in all three cases the sequence is emptied, depth_hold set to 0 and
\* correct_counter unchanged.
C26_IncorrectRep ==
    [][ \A knee \in KneeAngles, back \in BackAngles :
          (/\ SquatFrame(TRUE, knee, back, FALSE)
           /\ ~CorrectBranch(SeqNow, HoldNow)
           /\ Len(SeqNow) >= 3
           /\ SeqNow[Len(SeqNow)] = "S1")
             => /\ incorrect_counter' =
                      IF ~Contains(SeqNow, "S3") THEN incorrect_counter + 1
                      ELSE IF HoldNow < 3 THEN incorrect_counter + 1
                      ELSE incorrect_counter
                /\ sequence' = <<>>
                /\ depth_hold' = 0
                /\ correct_counter' = correct_counter
      ]_vars

\* C26 witnesses: a sequence back at S1 without an S3 has just been counted
\* incorrect; one with an S3 held for less than three frames likewise; one with
\* an S3 held for three frames (S3, S2, S1 from a start in S3: no correct branch
\* matched) has been emptied without a count.
C26_Witness ==
    /\ feedback = "Hold at bottom longer"
    /\ incorrect_counter = 1 /\ correct_counter = 0
    /\ sequence = <<>> /\ depth_hold = 0 /\ stage = "S1"

C26_WitnessIncomplete ==
    /\ feedback = "Incomplete Squat - Go deeper"
    /\ incorrect_counter = 1 /\ correct_counter = 0
    /\ sequence = <<>> /\ depth_hold = 0 /\ stage = "S1"

C26_WitnessNoCount ==
    /\ feedback = "none"
    /\ incorrect_counter = 0 /\ correct_counter = 0
    /\ sequence = <<>> /\ depth_hold = 0 /\ stage = "S1"
    /\ min_knee_angle <= 60 * STAGE_S2_THRESHOLD

\* C27: a process_frame call without a pose, or with one of the four landmarks
\* at visibility <= 0.8, leaves correct_counter, incorrect_counter, stage,
\* sequence, depth_hold, min_knee_angle and both smoothing windows unchanged and
\* only sets the feedback text.
C27_InvisibleFrame ==
    [][ SquatFrame(FALSE, 0, 0, FALSE)
          => /\ UNCHANGED <<correct_counter, incorrect_counter, stage, sequence,
                            depth_hold, min_knee_angle, knee_history, back_history>>
             /\ feedback' = "Please make your full body visible"
      ]_vars

\* C27 witness: an invisible frame has been processed in the middle of a rep.
C27_Witness ==
    /\ feedback = "Please make your full body visible"
    /\ stage = "S3"
    /\ depth_hold = 2
    /\ sequence = <<"S1", "S2", "S3">>
    /\ Len(knee_history) = HISTORY_LEN

\* A rep-resolution branch fires on the frame (lines 463-467, 470-474, 476-483).
BranchFires == Resolution(SeqNow, HoldNow, Mean60(knee_history')) # "nothing"

C29_MinKneeReset ==
    [][ (correct_counter' > correct_counter \/ incorrect_counter' > incorrect_counter)
          => min_knee_angle' = 60 * MIN_KNEE_INIT ]_vars

\* What the analyzer does: min_knee_angle is 180 again after a correct rep
\* (lines 466, 473) and keeps its running minimum after an incorrect one.
MinKneeResetOnCorrect ==
    [][ /\ correct_counter' > correct_counter => min_knee_angle' = 60 * MIN_KNEE_INIT
        /\ incorrect_counter' > incorrect_counter
              => min_knee_angle' = Min2(min_knee_angle, Mean60(knee_history'))
      ]_vars

\* No two neighbours of the sequence are equal.
NoRepeat(seq) == \A i \in 1..(Len(seq) - 1) : seq[i] # seq[i + 1]

\* C33: whenever sequence is non-empty its last entry is the current stage and
\* no two adjacent entries are equal; whenever its last three entries are
\* [S1,S2,S3] the smoothed knee angle is <= 95; the first correct-rep branch
\* never increments correct_counter, and every correct rep is counted by the
\* [S2,S3,S2] branch on a frame whose stage is S2.
C33_SequenceShape ==
    [][ /\ sequence' # <<>> => sequence'[Len(sequence')] = stage'
        /\ NoRepeat(sequence')
        /\ (Len(sequence') >= 3 /\ Last3(sequence') = <<"S1", "S2", "S3">>)
              => Mean60(knee_history') <= 60 * STAGE_S2_THRESHOLD
        /\ \A knee \in KneeAngles, back \in BackAngles :
              SquatFrame(TRUE, knee, back, FALSE) =>
                 /\ (/\ Len(SeqNow) >= 3
                     /\ Last3(SeqNow) = <<"S1", "S2", "S3">>
                     /\ HoldNow >= 3) => correct_counter' = correct_counter
                 /\ correct_counter' > correct_counter
                       => /\ stage' = "S2"
                          /\ Len(SeqNow) >= 3
                          /\ Last3(SeqNow) = <<"S2", "S3", "S2">>
      ]_vars

\* C33 witness: the sequence is [S1,S2,S3] with the depth held for three frames,
\* the condition of the first correct-rep branch, and no rep has been counted.
C33_Witness ==
    /\ sequence = <<"S1", "S2", "S3">>
    /\ stage = "S3"
    /\ depth_hold >= 3
    /\ correct_counter = 0

\* C35: every shallow excursion, in which the stage leaves S1 for S2 and comes
\* back to S1 without reaching S3, increases incorrect_counter by exactly 1 on
\* the frame of the return to S1, whatever repetitions preceded it.
C35_ShallowExcursion ==
    [][ \A knee \in KneeAngles, back \in BackAngles :
          (SquatFrame(TRUE, knee, back, FALSE) /\ exc = "out" /\ stage' = "S1")
             => incorrect_counter' = incorrect_counter + 1
      ]_vars

\* What the analyzer does: the excursion is counted when the sequence, with the
\* S1 of the return appended, has three entries or more, which it has not when
\* the previous rep was resolved in S1 (the sequence then is [S2,S1]).
ShallowCountedWhenLong ==
    [][ \A knee \in KneeAngles, back \in BackAngles :
          (SquatFrame(TRUE, knee, back, FALSE) /\ exc = "out" /\ stage' = "S1")
             => incorrect_counter' =
                   IF Len(SeqNow) >= 3 THEN incorrect_counter + 1 ELSE incorrect_counter
      ]_vars

\* C37: after any process_frame call the sequence has at most 8 entries.
C37_SequenceBounded == Len(sequence) <= 8

\* C37 witness: a sequence of 8 entries: an uncounted [S2,S1] followed by three
\* descents to S3 of one frame each.
C37_Witness ==
    sequence = <<"S2", "S1", "S2", "S3", "S2", "S3", "S2", "S3">>

\* C34: on every frame in which correct_counter increases the feedback stored
\* is 'Bend forward', 'Bend backwards', 'Lower your hips' or 'Knees over toes',
\* never 'Correct Squat'.
C34_CorrectRepFeedback ==
    [][ correct_counter' > correct_counter
          => feedback' \in {"Bend forward", "Bend backwards", "Lower your hips",
                            "Knees over toes"}
      ]_vars

\* C34 witness: a correct rep has been counted with the back between 25 and 50
\* degrees and the ankle behind the knee, and the feedback is 'Lower your hips'.
C34_Witness ==
    /\ correct_counter = 1
    /\ sequence = <<>>
    /\ depth_hold = 0
    /\ min_knee_angle = 60 * MIN_KNEE_INIT
    /\ back_history = <<40, 40, 40, 40, 40>>
    /\ feedback = "Lower your hips"

\* The feedback of a visible frame were the six overrides applied one after the
\* other, each overwriting the feedback of those before it.
LastWriteFeedback(fb, b60, st, k60, mk60, kot) ==
    IF kot THEN "Knees over toes"
    ELSE IF st = "S3" /\ mk60 > 60 * 60 THEN "Raise deeper"
    ELSE IF st = "S3" /\ k60 < 60 * 50 THEN "Squat too deep"
    ELSE IF st = "S2" /\ k60 > 60 * 80 THEN "Lower your hips"
    ELSE IF b60 > 60 * 50 THEN "Bend backwards"
    ELSE IF b60 < 60 * 25 THEN "Bend forward"
    ELSE fb

\* The feedback the rep resolution of the frame leaves (lines 459-483).
ResolvedFeedback ==
    ResolutionFeedback(Resolution(SeqNow, HoldNow, Mean60(knee_history')))

\* C30: on a visible frame the final feedback is decided by the overrides in
\* the order back < 25, back > 50, S2 and knee > 80, S3 and knee < 50, S3 and
\* min_knee_angle > 60, ankle.x > knee.x, the latest one that holds winning;
\* 'Knees over toes' is the feedback whenever ankle.x > knee.x.
C30_LastWriteWins ==
    [][ \A back \in ScenarioBack, kot \in BOOLEAN :
          (nfed < Len(ScenarioKnee)
           /\ ProcessFrame(TRUE, ScenarioKnee[nfed + 1], back, kot))
             => feedback' = LastWriteFeedback(ResolvedFeedback, Mean60(back_history'),
                                              stage', Mean60(knee_history'),
                                              min_knee_angle', kot)
      ]_vars

\* What the analyzer does: ankle.x > knee.x always gives 'Knees over toes'
\* (lines 495-496), and a back angle out of 25..50 gives its feedback before
\* the knee tests are looked at (the elif chain of lines 485-494).
BackAngleFirst ==
    [][ \A back \in ScenarioBack, kot \in BOOLEAN :
          (nfed < Len(ScenarioKnee)
           /\ ProcessFrame(TRUE, ScenarioKnee[nfed + 1], back, kot))
             => feedback' = IF kot THEN "Knees over toes"
                            ELSE IF Mean60(back_history') < 60 * 25 THEN "Bend forward"
                            ELSE IF Mean60(back_history') > 60 * 50 THEN "Bend backwards"
                            ELSE feedback'
      ]_vars

\* Stage traces of the ten-frame scenario: the one claimed, and the one the
\* smoothed angles 170,170,160,145,134,118,102,96,108,122 give.
ClaimedStages == <<"S1", "S1", "S2", "S3", "S3", "S3", "S3", "S2", "S1", "S1">>
SmoothedStages == <<"S1", "S1", "S2", "S2", "S2", "S2", "S2", "S2", "S2", "S2">>

MIN_AIRBORNE_FRAMES == 6
SMOOTHING_WINDOW == 5
FRAME_HEIGHT == 360
STEADY_FRAMES_REQUIRED == 5

\* Nose heights (pixel rows; smaller is higher) and frame intervals in
\* milliseconds (0: two frames with the same time.time()) that are fed.
NoseYs == {150, 198, 200}
DtMs == {0, 40}

Max2(a, b) == IF a > b THEN a ELSE b
Abs(a) == IF a < 0 THEN 0 - a ELSE a

\* lines 359-362, times 60, for h = FRAME_HEIGHT and VEL_*_PCT_OF_H = 0.25:
\* max(8, 0.015 h), max(5, 0.01 h), 0.25 h
ArmThresh60 == Max2(60 * 8, (9 * FRAME_HEIGHT) \div 10)
LandThresh60 == Max2(60 * 5, (6 * FRAME_HEIGHT) \div 10)
UpVelThresh60 == 15 * FRAME_HEIGHT
DownVelThresh60 == 15 * FRAME_HEIGHT

NoResult == [set |-> FALSE, valid |-> FALSE, reason |-> "none", peak |-> 0]

\* _init_state (lines 238-251); baseline_nose_y -1 stands for None, has_prev
\* FALSE for prev_dy None
InitJumpState ==
    [state |-> "idle", baseline_nose_y |-> -1, peak_delta_pixels |-> 0,
     last_jump_result |-> NoResult, has_prev |-> FALSE, prev_dy |-> 0,
     airborne_frames |-> 0, dy_debug |-> 0, vel_debug |-> 0,
     nose_history |-> <<>>, steady_frames |-> 0]

InitJump ==
    /\ jump = InitJumpState
    /\ flight = 0
    /\ jprev = "none"

\* A frame as read_frame sees it: pose = landmarks were found; nose = the nose
\* height, -1 when its visibility is below 0.4; rh, lh = is_hand_to_nose for the
\* right and the left index finger (False without a visible nose); dt = now -
\* prev_time in ms; cheat = what detect_squat_cheat returns for the landmarks.
\* Frames without a pose or without a visible nose are all alike to read_frame.
JumpInputs ==
    {in \in [pose : BOOLEAN, nose : NoseYs \cup {-1}, rh : BOOLEAN, lh : BOOLEAN,
             dt : DtMs, cheat : BOOLEAN] :
        (~in.pose \/ in.nose = -1) =>
            (in.nose = -1 /\ ~in.rh /\ ~in.lh /\ ~in.cheat /\ in.dt = 40)}

\* lines 316-324: ARM gesture
ArmGesture(j, in) ==
    IF j.state = "idle" /\ in.rh
    THEN [j EXCEPT !.state = "armed",
                   !.baseline_nose_y = in.nose,
                   !.peak_delta_pixels = 0,
                   !.steady_frames = 0]
    ELSE j

\* _reset_state (lines 262-270)
ResetState(j) ==
    [j EXCEPT !.state = "idle", !.baseline_nose_y = -1, !.peak_delta_pixels = 0,
              !.has_prev = FALSE, !.prev_dy = 0, !.airborne_frames = 0,
              !.nose_history = <<>>, !.steady_frames = 0]

\* Mutant of ResetGesture: the gesture resets the analyzer in every phase.
ResetGesture_AnyPhase(j, in) ==
    IF in.lh
    THEN [ResetState(j) EXCEPT !.last_jump_result = NoResult]
    ELSE j

\* lines 331-335: RESET gesture
ResetGesture(j, in) ==
    IF j.state \in {"armed", "landed"} /\ in.lh
    THEN [ResetState(j) EXCEPT !.last_jump_result = NoResult]
    ELSE j

\* lines 340-342: nose_history.append; pop(0) beyond max(5, SMOOTHING_WINDOW)
PushNose(h, y) ==
    IF Len(h) + 1 > Max2(5, SMOOTHING_WINDOW) THEN Append(Tail(h), y) ELSE Append(h, y)

\* lines 345-348
SteadyAfter(n, smooth60, base) ==
    IF Abs(smooth60 - 60 * base) < 60 * 4 THEN n + 1 ELSE 0

\* lines 352-354: 60 * (dy - prev_dy) / dt_local, dt in ms dividing 1000
Velocity60(j, dy60, dt) ==
    IF j.has_prev /\ dt > 0 THEN (dy60 - j.prev_dy) * (1000 \div dt) ELSE 0

\* Mutant of FinalizeJump: the cheat detector is consulted before the height.
FinalizeJump_CheatFirst(peak60, cheat) ==
    IF cheat
    THEN [set |-> TRUE, valid |-> FALSE, reason |-> "cheat", peak |-> Max2(0, peak60)]
    ELSE IF Max2(0, peak60) * 12 < 2 * 100 * 60
    THEN [set |-> TRUE, valid |-> FALSE, reason |-> "too-small", peak |-> Max2(0, peak60)]
    ELSE [set |-> TRUE, valid |-> TRUE, reason |-> "ok", peak |-> Max2(0, peak60)]

\* _finalize_jump (lines 272-288): inches = max(0, peak) * 12 / 100 against
\* MIN_JUMP_INCHES = 2.0, i.e. 60 * peak against 1000
FinalizeJump(peak60, cheat) ==
    IF Max2(0, peak60) * 12 < 2 * 100 * 60
    THEN [set |-> TRUE, valid |-> FALSE, reason |-> "too-small", peak |-> Max2(0, peak60)]
    ELSE IF cheat
    THEN [set |-> TRUE, valid |-> FALSE, reason |-> "cheat", peak |-> Max2(0, peak60)]
    ELSE [set |-> TRUE, valid |-> TRUE, reason |-> "ok", peak |-> Max2(0, peak60)]

\* lines 364-387: take-off and landing, on the fields k already updated by the
\* measurements of this frame
Transition(k, dy60, vel60, cheat) ==
    IF /\ k.state = "armed"
       /\ k.steady_frames >= STEADY_FRAMES_REQUIRED
       /\ dy60 > ArmThresh60
       /\ vel60 > UpVelThresh60
    THEN [k EXCEPT !.state = "airborne", !.airborne_frames = 0]
    ELSE IF k.state = "airborne"
    THEN IF /\ dy60 < LandThresh60
            /\ vel60 < 0 - DownVelThresh60
            /\ k.airborne_frames + 1 >= MIN_AIRBORNE_FRAMES
         THEN [k EXCEPT !.airborne_frames = @ + 1,
                        !.state = "landed",
                        !.last_jump_result = FinalizeJump(k.peak_delta_pixels, cheat),
                        !.steady_frames = 0]
         ELSE [k EXCEPT !.airborne_frames = @ + 1]
    ELSE k

\* lines 343-357: the measurements of a frame, then the transition
Measured(j, h, smooth60, dy60, vel60, cheat) ==
    Transition([j EXCEPT !.nose_history = h,
                         !.steady_frames = SteadyAfter(@, smooth60, j.baseline_nose_y),
                         !.dy_debug = dy60,
                         !.vel_debug = vel60,
                         !.has_prev = TRUE,
                         !.prev_dy = dy60,
                         !.peak_delta_pixels = Max2(@, dy60)],
               dy60, vel60, cheat)

WithDy(j, h, smooth60, dy60, in) ==
    Measured(j, h, smooth60, dy60, Velocity60(j, dy60, in.dt), in.cheat)

WithHistory(j, h, in) ==
    WithDy(j, h, Mean60(h), 60 * j.baseline_nose_y - Mean60(h), in)

\* lines 338-387: jump detection, when the nose is visible and a baseline is set
Detect(j, in) ==
    IF in.nose # -1 /\ j.baseline_nose_y # -1
    THEN WithHistory(j, PushNose(j.nose_history, in.nose), in)
    ELSE j

\* read_frame (lines 297-387) on a frame read from the camera
ReadFrame(j, in) ==
    IF in.pose THEN Detect(ResetGesture(ArmGesture(j, in), in), in) ELSE j

\* The frame is measured (lines 339-357): the nose is visible and a baseline is
\* set once the gestures of the frame are dealt with
Measures(j, in) ==
    /\ in.pose
    /\ in.nose # -1
    /\ ResetGesture(ArmGesture(j, in), in).baseline_nose_y # -1

\* The motion of a measured frame, whatever the analyzer makes of it: the
\* subject, armed and steady for five frames or more, rises above the arm
\* threshold fast enough; k is the analyzer after the frame
TakeOffMotion(j, k, in) ==
    /\ Measures(j, in)
    /\ j.state = "armed"
    /\ j.steady_frames >= STEADY_FRAMES_REQUIRED
    /\ k.dy_debug > ArmThresh60
    /\ k.vel_debug > UpVelThresh60

\* ... and: the subject is back within the landing threshold, moving down fast
LandingMotion(j, k, in) ==
    /\ Measures(j, in)
    /\ k.dy_debug < LandThresh60
    /\ k.vel_debug < 0 - DownVelThresh60

\* Observer: 0 until a take-off motion, then 1 + the frames measured since; back
\* to 0 with the reset gesture.
FlightAfter(f, j, k, in) ==
    IF k.state = "idle" THEN 0
    ELSE IF f = 0 THEN (IF TakeOffMotion(j, k, in) THEN 1 ELSE 0)
    ELSE IF Measures(j, in) THEN f + 1
    ELSE f

WithinJumpBounds ==
    /\ jump.steady_frames < MaxSteady
    /\ flight < MaxFlight
    /\ jump.airborne_frames < MaxFlight

\* One frame read by the capture loop; detect_squat_cheat is only called for a
\* landing, so its answer is drawn only in state airborne.
JumpFrame(in) ==
    /\ WithinJumpBounds
    /\ in.cheat => jump.state = "airborne"
    /\ jump' = ReadFrame(jump, in)
    /\ flight' = FlightAfter(flight, jump, jump', in)
    /\ jprev' = jump.state
    /\ UNCHANGED notJmp

NextJump == \E in \in JumpInputs : JumpFrame(in)

\* read_frame as a function of the analyzer's fields: the fields a JumpAnalyzer
\* holds in each of its four phases. The phases airborne and landed are those
\* the take-off and landing branches (lines 365-387) assign; the windows hold
\* the nose heights of a subject standing at the baseline, coming down to it,
\* or 50 px above it, and prev_dy is the displacement of the window held.
NoseWindows ==
    {<<200, 200, 200, 200, 200>>, <<150, 200, 200, 200, 200>>,
     <<150, 150, 150, 150, 150>>}

PhaseStates ==
    {InitJumpState} \cup
    {[state |-> st, baseline_nose_y |-> 200, peak_delta_pixels |-> pk,
      last_jump_result |-> IF st = "landed" THEN FinalizeJump(pk, FALSE) ELSE NoResult,
      has_prev |-> TRUE, prev_dy |-> 60 * 200 - Mean60(h),
      airborne_frames |-> af, dy_debug |-> 60 * 200 - Mean60(h), vel_debug |-> 0,
      nose_history |-> h, steady_frames |-> sf] :
        st \in {"armed", "airborne", "landed"}, pk \in {60 * 50}, h \in NoseWindows,
        af \in {0, MIN_AIRBORNE_FRAMES - 1}, sf \in {0, STEADY_FRAMES_REQUIRED}}

InitPhase ==
    /\ jump \in PhaseStates
    /\ flight = 0
    /\ jprev = "none"

\* The frames fed to it: 40 ms apart, the nose at the baseline or 50 px above.
PhaseInputs == {in \in JumpInputs : in.dt = 40 /\ in.nose \in {-1, 150, 200}}

NextPhase == \E in \in PhaseInputs : JumpFrame(in)

\* ---------------------------------------------------------- JumpAnalyzer claims

\* C9: take-off is reachable: on a frame of an Armed analyzer, steady for five
\* frames or more, whose displacement dy exceeds max(8, 0.015 h) and whose
\* velocity exceeds 0.25 h, state becomes airborne and airborne_frames 0.
C9_TakeOff ==
    [][ \A in \in JumpInputs :
          (JumpFrame(in) /\ TakeOffMotion(jump, jump', in))
             => (jump'.state = "airborne" /\ jump'.airborne_frames = 0)
      ]_vars

\* What the analyzer does instead: steady_frames is reset on the very frame
\* whose displacement exceeds the arm threshold, so no frame ever leaves Armed
\* for Airborne.
JumpNeverAirborne == jump.state \in {"idle", "armed"}

PhaseEdges ==
    {<<"idle", "armed">>, <<"armed", "airborne">>, <<"airborne", "landed">>,
     <<"armed", "idle">>, <<"landed", "idle">>}

\* C23: a read_frame changes JumpAnalyzer.state only along Idle->Armed,
\* Armed->Airborne, Airborne->Landed, Armed->Idle and Landed->Idle.
C23_PhaseEdges ==
    [][ jump'.state # jump.state => <<jump.state, jump'.state>> \in PhaseEdges ]_vars

\* A frame has taken an airborne analyzer to landed.
C23_Witness == jprev = "airborne" /\ jump.state = "landed"

\* ... and each of the other changes a frame can make has been made.
C23_WitnessReset == jprev = "landed" /\ jump.state = "idle"
C23_WitnessArm == jprev = "idle" /\ jump.state = "armed"
C23_WitnessDisarm == jprev = "armed" /\ jump.state = "idle"

\* What the arm gesture is specified to leave behind.
ArmedBy(k, in) ==
    /\ k.state = "armed"
    /\ k.baseline_nose_y = in.nose
    /\ k.peak_delta_pixels = 0

\* C24: a frame read in state Idle with the right index finger within 60 px of
\* a visible nose leaves state Armed, baseline_nose_y that frame's nose height
\* and peak_delta_pixels 0, wherever the left hand is.
C24_ArmGesture ==
    [][ \A in \in JumpInputs :
          (JumpFrame(in) /\ jump.state = "idle" /\ in.pose /\ in.rh)
             => ArmedBy(jump', in)
      ]_vars

\* What the analyzer does: the frame arms it when the left index finger is not
\* at the nose as well; with both fingers at the nose the reset test (line 331)
\* sees the state just armed and the frame leaves the analyzer Idle.
ArmsWithoutLeftHand ==
    [][ \A in \in JumpInputs :
          (JumpFrame(in) /\ jump.state = "idle" /\ in.pose /\ in.rh)
             => IF in.lh THEN jump' = [InitJumpState EXCEPT !.dy_debug = jump.dy_debug,
                                                             !.vel_debug = jump.vel_debug]
                ELSE ArmedBy(jump', in)
      ]_vars

\* The fields _reset_state and the reset gesture assign (has_prev FALSE stands
\* for prev_dy None, -1 for baseline_nose_y None).
IsReset(k) ==
    /\ k.state = "idle"
    /\ k.baseline_nose_y = -1
    /\ k.peak_delta_pixels = 0
    /\ ~k.has_prev
    /\ k.airborne_frames = 0
    /\ k.steady_frames = 0
    /\ k.nose_history = <<>>
    /\ k.last_jump_result = NoResult

\* The frame in without the left index finger at the nose.
HandAway(in) == [in EXCEPT !.lh = FALSE]

\* The first half of C25: the left-hand gesture while Armed or Landed leaves
\* the analyzer reset.
ResetsArmedAndLanded ==
    [][ \A in \in JumpInputs :
          (JumpFrame(in) /\ in.pose /\ in.lh /\ jump.state \in {"armed", "landed"})
             => IsReset(jump')
      ]_vars

\* C25: the left-hand gesture while Armed or Landed leaves state Idle,
\* baseline_nose_y None, peak_delta_pixels 0, prev_dy None, airborne_frames 0,
\* steady_frames 0, an empty nose window and last_jump_result None; while Idle
\* or Airborne it triggers no reset: the frame does what it does without it.
C25_ResetGesture ==
    [][ \A in \in JumpInputs :
          (JumpFrame(in) /\ in.pose /\ in.lh)
             => IF jump.state \in {"armed", "landed"}
                THEN IsReset(jump')
                ELSE jump' = ReadFrame(jump, HandAway(in))
      ]_vars

\* ================================================ JumpAnalyzer._finalize_jump

\* Largest peak_delta_pixels a finalization is called with, in steps of a third
\* of a pixel; the smallest is -1 pixel (the nose never rose above the baseline).
MaxPeak == 60

\* peak_delta_pixels, times 60
Peaks60 == {20 * n : n \in (0 - 3)..MaxPeak}

\* The six landmarks detect_squat_cheat reads, in the order it reads them.
CheatNames ==
    <<"LEFT_HIP", "RIGHT_HIP", "LEFT_KNEE", "RIGHT_KNEE", "LEFT_ANKLE", "RIGHT_ANKLE">>

\* Landmarks of a landing frame: vis = the visibility of each of the six, in
\* tenths; hip_y, knee_y = the pixel rows of the left and right hip and knee;
\* hip_x, ankle_x = the pixel columns of the hips and ankles; al, ar = the
\* angles hip-knee-ankle of the left and the right leg, in degrees.
CheatPoses ==
    [vis : [1..6 -> {3, 4}],
     hip_y : {<<100, 100>>, <<170, 190>>, <<170, 192>>},
     knee_y : {<<200, 200>>},
     hip_x : {<<160, 160>>},
     ankle_x : {<<100, 100>>, <<100, 102>>, <<300, 300>>},
     al : {140, 160},
     ar : {140, 159, 160}]

StandingPose ==
    [vis |-> [i \in 1..6 |-> 4], hip_y |-> <<100, 100>>, knee_y |-> <<200, 200>>,
     hip_x |-> <<160, 160>>, ankle_x |-> <<300, 300>>, al |-> 160, ar |-> 160]

InitFinalize ==
    /\ fin = [called |-> FALSE, peak |-> 0, cheat |-> FALSE, result |-> NoResult]
    /\ ck = [called |-> FALSE, pose |-> StandingPose, peak |-> 0, ret |-> FALSE,
             result |-> NoResult]

\* Mutant of LandmarkSeen: a landmark at visibility 0.4 is not used.
LandmarkSeen_Above(v) == v > 4

\* landmark_xy (lines 81-84): None when lm.visibility < 0.4
LandmarkSeen(v) == v >= 4

\* detect_squat_cheat (lines 130-138): the loop returns False at the first of
\* the six landmarks that landmark_xy does not give
RECURSIVE AllGiven(_, _)
AllGiven(p, i) ==
    IF i > Len(CheatNames) THEN TRUE
    ELSE IF ~LandmarkSeen(p.vis[i]) THEN FALSE
    ELSE AllGiven(p, i + 1)

\* lines 149-153: (knee_angle_left + knee_angle_right) / 2 < 150
IsKneeBent(p) == p.al + p.ar < 2 * 150

\* lines 140-141, 154: hip_y > knee_y - 20 on the means of the two sides
IsHipLow(p) == p.hip_y[1] + p.hip_y[2] > p.knee_y[1] + p.knee_y[2] - 2 * 20

\* lines 155-161: the ankle midpoint within 60 px of the hip midpoint
IsAnkleUnder(p) ==
    Abs((p.ankle_x[1] + p.ankle_x[2]) - (p.hip_x[1] + p.hip_x[2])) < 2 * 60

\* detect_squat_cheat (lines 116-164)
DetectSquatCheat(p) ==
    IF ~AllGiven(p, 1) THEN FALSE
    ELSE IsKneeBent(p) /\ (IsHipLow(p) \/ IsAnkleUnder(p))

\* _finalize_jump is called on the landing frame with the peak measured so far;
\* cheat is what detect_squat_cheat would return for the frame's landmarks.
FinalizeCall(peak60, cheat) ==
    /\ fin' = [called |-> TRUE, peak |-> peak60, cheat |-> cheat,
               result |-> FinalizeJump(peak60, cheat)]
    /\ UNCHANGED ck
    /\ UNCHANGED notFin

NextFinalize == \E peak60 \in Peaks60, cheat \in BOOLEAN : FinalizeCall(peak60, cheat)

\* _finalize_jump (lines 272-288) on the landmarks of the landing frame: the
\* detector's answer is what the finalization uses. The detector is only called
\* for a height that qualifies; ret records what it returns for the landmarks.
\* One landing is checked in a run.
LandingCheck(p, peak60) ==
    /\ ~ck.called
    /\ ck' = [called |-> TRUE, pose |-> p, peak |-> peak60,
              ret |-> DetectSquatCheat(p),
              result |-> FinalizeJump(peak60, DetectSquatCheat(p))]
    /\ UNCHANGED fin
    /\ UNCHANGED notFin

\* Landings of 10 px (1.2 in) and of 50 px (6 in).
NextLanding == \E p \in CheatPoses, peak60 \in {60 * 10, 60 * 50} : LandingCheck(p, peak60)

\* inches = max(0, peak_delta_pixels) * 12 / 100 is below MIN_JUMP_INCHES = 2.0
TooSmall(peak60) == (IF peak60 < 0 THEN 0 ELSE peak60) * 12 < 2 * 100 * 60

\* C11: every finalization yields exactly one result: reason too-small when the
\* height is below MIN_JUMP_INCHES whatever the cheat detector would say,
\* otherwise cheat when the detector is true, otherwise ok; valid is true
\* exactly when the reason is ok.
C11_Finalize ==
    fin.called =>
        /\ fin.result.set
        /\ fin.result.reason =
              (IF TooSmall(fin.peak) THEN "too-small"
               ELSE IF fin.cheat THEN "cheat" ELSE "ok")
        /\ fin.result.valid <=> (fin.result.reason = "ok")

\* C11 witness: a finalization whose height alone qualifies but which the
\* cheat detector flags.
C11_Witness ==
    /\ fin.called
    /\ ~TooSmall(fin.peak)
    /\ fin.cheat
    /\ fin.result.reason = "cheat"
    /\ ~fin.result.valid

\* All six hip, knee and ankle landmarks have visibility >= 0.4.
SixVisible(p) == \A i \in 1..6 : p.vis[i] >= 4

\* C31: detect_squat_cheat returns True exactly when all six hip/knee/ankle
\* landmarks are visible (visibility >= 0.4), the mean of the two knee angles
\* is below 150 and (mean hip y > mean knee y - 20, or the ankle midpoint is
\* within 60 px horizontally of the hip midpoint); with one of the six not
\* visible it returns False, and a landing of sufficient height is then valid
\* with reason ok.
C31_CheatDetector ==
    ck.called =>
        /\ ck.ret <=> /\ SixVisible(ck.pose)
                      /\ ck.pose.al + ck.pose.ar < 300
                      /\ \/ ck.pose.hip_y[1] + ck.pose.hip_y[2]
                                > ck.pose.knee_y[1] + ck.pose.knee_y[2] - 40
                         \/ Abs(ck.pose.ankle_x[1] + ck.pose.ankle_x[2]
                                - ck.pose.hip_x[1] - ck.pose.hip_x[2]) < 120
        /\ (~SixVisible(ck.pose) /\ ~TooSmall(ck.peak))
              => (ck.result.valid /\ ck.result.reason = "ok")

\* C31 witness: a landing of 50 px in a deep squat (knees bent, hips low) whose
\* right ankle is not visible is reported valid.
C31_Witness ==
    /\ ck.called
    /\ ck.peak = 60 * 50
    /\ ck.pose.vis = [i \in 1..6 |-> IF i = 6 THEN 3 ELSE 4]
    /\ ck.pose.al = 140 /\ ck.pose.ar = 140
    /\ ck.pose.hip_y = <<170, 192>>
    /\ ck.result.valid /\ ck.result.reason = "ok"

\* ... and the same landing with all six visible is a cheat.
C31_WitnessCheat ==
    /\ ck.called
    /\ ck.peak = 60 * 50
    /\ SixVisible(ck.pose)
    /\ ck.pose.al = 140 /\ ck.pose.ar = 159
    /\ ck.pose.hip_y = <<170, 190>> /\ ck.pose.ankle_x = <<100, 102>>
    /\ ck.result.reason = "cheat"

\* ========================================================== JumpAnalyzerMobile

\* Baseline updates made while frames are fed to one analyzer.
MaxEma == 3

\* Heights are kept as JmScale times their value in pixels: the mean of 1..5
\* integers and up to MaxEma updates 0.1 * smooth_y + 0.9 * baseline_y are exact.
JmScale == 60 * 10 ^ MaxEma

\* Ankle heights (avg_ankle_y * frame_h, pixel rows) of the frames fed.
AnkleYs == {200, 300}

\* A feedback text; px is the number in "Jump Height: <px> px", else 0.
JmText(text, px) == [text |-> text, px |-> px]

\* __init__ (lines 442-448); baseline_y -1 stands for None
FreshJumpMobile ==
    [baseline_y |-> -1, max_jump_height |-> 0, jump_count |-> 0,
     is_jumping |-> FALSE, current_jump_height |-> 0,
     feedback |-> JmText("none", 0), y_history |-> <<>>]

InitJumpMobile ==
    /\ jm = FreshJumpMobile
    /\ jmhist = "fresh"
    /\ nema = 0

\* JmScale * (sum(self.y_history) / len(self.y_history))
MeanJm(h) == (JmScale \div Len(h)) * SumSeq(h)

\* Mutant of JmRising: the baseline follows the smoothed height during a jump
\* as well (smooth_y = baseline_y - jump_pixels).
JmRising_Drifts(j, px) ==
    [j EXCEPT !.is_jumping = TRUE,
              !.jump_count = IF j.is_jumping THEN @ ELSE @ + 1,
              !.current_jump_height = Max2(@, px),
              !.max_jump_height = Max2(@, px),
              !.feedback = JmText("Jump Height", Max2(j.current_jump_height, px) \div JmScale),
              !.baseline_y = (10 * j.baseline_y - px) \div 10]

\* Mutant of JmRising: every frame above the threshold counts a jump.
JmRising_CountsFrames(j, px) ==
    [j EXCEPT !.is_jumping = TRUE,
              !.jump_count = @ + 1,
              !.current_jump_height = Max2(@, px),
              !.max_jump_height = Max2(@, px),
              !.feedback = JmText("Jump Height", Max2(j.current_jump_height, px) \div JmScale)]

\* lines 482-488: the displacement exceeds 30 px
JmRising(j, px) ==
    [j EXCEPT !.is_jumping = TRUE,
              !.jump_count = IF j.is_jumping THEN @ ELSE @ + 1,
              !.current_jump_height = Max2(@, px),
              !.max_jump_height = Max2(@, px),
              !.feedback = JmText("Jump Height", Max2(j.current_jump_height, px) \div JmScale)]

\* lines 489-494: at or below 30 px; the baseline follows the smoothed height
JmResting(j, smooth) ==
    [j EXCEPT !.is_jumping = FALSE,
              !.current_jump_height = IF j.is_jumping THEN 0 ELSE @,
              !.feedback = JmText("Ready to jump", 0),
              !.baseline_y = (smooth + 9 * j.baseline_y) \div 10]

\* lines 479-480: jump_pixels = (self.baseline_y - smooth_y) * frame_h
JmPixels(j, smooth) == j.baseline_y - smooth

JmMeasured(j, smooth) ==
    IF JmPixels(j, smooth) > 30 * JmScale THEN JmRising(j, JmPixels(j, smooth))
    ELSE JmResting(j, smooth)

\* lines 476-477: if self.baseline_y is None: self.baseline_y = smooth_y
JmBaselined(j, smooth) ==
    JmMeasured(IF j.baseline_y = -1 THEN [j EXCEPT !.baseline_y = smooth] ELSE j, smooth)

\* process_frame (lines 466-498); vis: a pose was found and both ankles have
\* visibility > 0.7
JmProcessFrame(j, vis, y) ==
    IF vis
    THEN JmBaselined([j EXCEPT !.y_history = Push(@, y)], MeanJm(Push(j.y_history, y)))
    ELSE [j EXCEPT !.feedback = JmText("Please make your full body visible", 0)]

\* Mutant of JmResetState: baseline_y survives reset().
JmResetState_KeepsBaseline(j) ==
    [j EXCEPT !.jump_count = 0, !.max_jump_height = 0,
              !.is_jumping = FALSE, !.current_jump_height = 0,
              !.feedback = JmText("none", 0), !.y_history = <<>>]

\* reset() (lines 519-527)
JmResetState(j) ==
    [j EXCEPT !.jump_count = 0, !.max_jump_height = 0, !.baseline_y = -1,
              !.is_jumping = FALSE, !.current_jump_height = 0,
              !.feedback = JmText("none", 0), !.y_history = <<>>]

\* One /process_frame request served by the jump analyzer.
JmFrame(vis, y) ==
    /\ nema < MaxEma
    /\ jm' = JmProcessFrame(jm, vis, y)
    /\ nema' = IF vis /\ ~jm'.is_jumping THEN nema + 1 ELSE nema
    /\ jmhist' = "used"
    /\ UNCHANGED notJm

\* One /reset_analyzer request served by the jump analyzer.
JmReset ==
    /\ jm' = JmResetState(jm)
    /\ nema' = 0
    /\ jmhist' = HistAfterReset(jmhist)
    /\ UNCHANGED notJm

NextJumpMobile ==
    \/ \E y \in AnkleYs : JmFrame(TRUE, y)
    \/ JmFrame(FALSE, 0)
    \/ JmReset

\* ------------------------------------------- a session of the mobile analyzers

\* The two mobile analyzers share no state; a session feeds one of them.
SquatUntouched == hist = "fresh"
JumpUntouched == jmhist = "fresh"

SessionSquatFrame(knee, back) == JumpUntouched /\ SquatFrame(TRUE, knee, back, FALSE)
SessionSquatBlind == JumpUntouched /\ SquatFrame(FALSE, 0, 0, FALSE)
SessionSquatReset == JumpUntouched /\ SquatReset
SessionJumpFrame(y) == SquatUntouched /\ JmFrame(TRUE, y)
SessionJumpBlind == SquatUntouched /\ JmFrame(FALSE, 0)
SessionJumpReset == SquatUntouched /\ JmReset

NextSession ==
    \/ \E knee \in KneeAngles, back \in BackAngles : SessionSquatFrame(knee, back)
    \/ SessionSquatBlind
    \/ SessionSquatReset
    \/ \E y \in AnkleYs : SessionJumpFrame(y)
    \/ SessionJumpBlind
    \/ SessionJumpReset

\* C12: reset() restores the state of a freshly constructed analyzer whatever was
\* processed before, for SquatAnalyzerMobile and for JumpAnalyzerMobile, every
\* field included; a second reset() changes nothing.
C12_ResetRestores ==
    /\ hist = "reset" => FreshSquat
    /\ jmhist = "reset" => jm = FreshJumpMobile

\* C12 witness, squat: reset() has been applied to an analyzer that had
\* processed frames, and its fields are those of a fresh one.
C12_Witness ==
    /\ hist = "reset"
    /\ FreshSquat

\* The same for the jump analyzer.
C12_WitnessJump ==
    /\ jmhist = "reset"
    /\ jm = FreshJumpMobile

\* ------------------------------------------------ the baselines of the analyzers

\* JumpAnalyzer and JumpAnalyzerMobile share no state; a run feeds one of them.
CameraUntouched == jprev = "none" /\ jump = InitJumpState

BaselineCameraFrame(in) == JumpUntouched /\ JumpFrame(in)
BaselineMobileFrame(y) == CameraUntouched /\ JmFrame(TRUE, y)
BaselineMobileBlind == CameraUntouched /\ JmFrame(FALSE, 0)
BaselineMobileReset == CameraUntouched /\ JmReset

NextBaseline ==
    \/ \E in \in PhaseInputs : BaselineCameraFrame(in)
    \/ \E y \in AnkleYs : BaselineMobileFrame(y)
    \/ BaselineMobileBlind
    \/ BaselineMobileReset

\* The baseline a visible frame of JumpAnalyzerMobile is measured against
\* (lines 476-477), for the smoothed height of the frame.
JmBaseNow(smooth) == IF jm.baseline_y = -1 THEN smooth ELSE jm.baseline_y

\* C32: the baseline is not modified during a jump: a frame read by JumpAnalyzer
\* in state airborne leaves baseline_nose_y as it is; a frame of
\* JumpAnalyzerMobile whose displacement exceeds 30 px leaves baseline_y as it
\* is, and baseline_y moves, to 0.9 * baseline_y + 0.1 * smooth_y, only on
\* visible frames at or below 30 px.
C32_BaselineHeld ==
    [][ /\ \A in \in PhaseInputs :
              (JumpFrame(in) /\ jump.state = "airborne")
                 => jump'.baseline_nose_y = jump.baseline_nose_y
        /\ \A y \in AnkleYs :
              JmFrame(TRUE, y) =>
                 IF JmBaseNow(MeanJm(jm'.y_history)) - MeanJm(jm'.y_history)
                       > 30 * JmScale
                 THEN jm'.baseline_y = jm.baseline_y
                 ELSE 10 * jm'.baseline_y
                         = 9 * JmBaseNow(MeanJm(jm'.y_history)) + MeanJm(jm'.y_history)
        /\ JmFrame(FALSE, 0) => jm'.baseline_y = jm.baseline_y
      ]_vars

\* C32 witnesses: JumpAnalyzerMobile is in its second jump, measured against a
\* baseline that moved between the two jumps; JumpAnalyzer has read frames in
\* state airborne and is airborne still.
C32_Witness ==
    /\ jm.is_jumping
    /\ jm.jump_count = 2
    /\ jm.baseline_y \notin {-1, JmScale * 200, JmScale * 300}

C32_WitnessAirborne ==
    /\ jprev = "airborne"
    /\ jump.state = "airborne"
    /\ jump.airborne_frames >= 2
    /\ jump.baseline_nose_y = 200

\* The displacement of the visible frame just processed exceeds 30 px.
JmAbove == JmBaseNow(MeanJm(jm'.y_history)) - MeanJm(jm'.y_history) > 30 * JmScale

\* C40: jump_count increases, by exactly 1, on a visible frame whose
\* displacement exceeds 30 px while is_jumping was False, and on no other
\* frame, so consecutive frames above the threshold are one jump; after every
\* frame current_jump_height <= max_jump_height, and current_jump_height is 0
\* whenever is_jumping is False.
C40_OneCountPerJump ==
    /\ [](jm.current_jump_height <= jm.max_jump_height)
    /\ [](~jm.is_jumping => jm.current_jump_height = 0)
    /\ [][ /\ \A y \in AnkleYs :
                 JmFrame(TRUE, y) =>
                    jm'.jump_count = IF JmAbove /\ ~jm.is_jumping
                                     THEN jm.jump_count + 1
                                     ELSE jm.jump_count
           /\ JmFrame(FALSE, 0) => jm'.jump_count = jm.jump_count
         ]_vars

\* C40 witnesses: four consecutive frames above the threshold have been
\* counted as one jump; a second jump has ended.
C40_Witness ==
    /\ jm.is_jumping
    /\ jm.jump_count = 1
    /\ jm.y_history = <<300, 200, 200, 200, 200>>
    /\ jm.current_jump_height = 80 * JmScale

C40_WitnessLanded ==
    /\ ~jm.is_jumping
    /\ jm.jump_count = 2
    /\ jm.current_jump_height = 0
    /\ jm.max_jump_height > 30 * JmScale

\* ============================================================ SquatAnalyzer speech

\* _speak calls made on one analyzer.
MaxSaid == 4

\* Arguments of _speak: "none" stands for None, "" is the empty text.
Texts == {"none", "", "X", "Y"}

\* `if text`: None and the empty string are false
Truthy(text) == text \notin {"none", ""}

\* _init_counters (line 102), _init_speech (lines 111-115): the worker thread
\* is started by the constructor
InitSpeech ==
    /\ last_feedback = "none"
    /\ speech_queue = <<>>
    /\ said = <<>>
    /\ enqueued = <<>>
    /\ stop_speech = FALSE
    /\ engine = "unset"
    /\ wpc = "init"
    /\ wtext = "none"
    /\ sunk = <<>>
    /\ relpc = "idle"

\* Mutant of SpeakAccepts: a text is refused when it was ever queued before.
SpeakAccepts_Seen(text) ==
    Truthy(text) /\ \A i \in 1..Len(enqueued) : enqueued[i] # text

\* line 131: if text and text != self.last_feedback
SpeakAccepts(text) == Truthy(text) /\ text # last_feedback

\* _speak (lines 129-133)
Speak(text) ==
    /\ Len(said) < MaxSaid
    /\ IF SpeakAccepts(text)
          THEN /\ last_feedback' = text
               /\ speech_queue' = Append(speech_queue, text)
               /\ enqueued' = Append(enqueued, text)
          ELSE UNCHANGED <<last_feedback, speech_queue, enqueued>>
    /\ said' = Append(said, text)
    /\ UNCHANGED <<stop_speech, engine, wpc, wtext, sunk, relpc>>
    /\ UNCHANGED notSp

\* _speech_worker (lines 137-140): engine = pyttsx3.init(), None when it raises
WorkerInit ==
    /\ wpc = "init"
    /\ \E e \in {"ok", "none"} : engine' = e
    /\ wpc' = "loop"
    /\ UNCHANGED <<last_feedback, speech_queue, said, enqueued, stop_speech,
                   wtext, sunk, relpc>>
    /\ UNCHANGED notSp

\* line 142: while not self._stop_speech; after the loop engine.stop() and return
WorkerCheck ==
    /\ wpc = "loop"
    /\ wpc' = IF stop_speech THEN "done" ELSE "get"
    /\ UNCHANGED <<last_feedback, speech_queue, said, enqueued, stop_speech,
                   engine, wtext, sunk, relpc>>
    /\ UNCHANGED notSp

\* Where the worker goes with the payload it took (lines 147-150): None breaks
\* the loop, a text goes to the sink when there is an engine.
AfterGet(payload) ==
    IF payload = "none" THEN "done"
    ELSE IF engine = "ok" THEN "say"
    ELSE "loop"

\* lines 143-146: payload = self.speech_queue.get(timeout=0.5); queue.Empty
\* after half a second without an item: continue
WorkerGet ==
    /\ wpc = "get"
    /\ IF speech_queue = <<>>
          THEN /\ wpc' = "loop"
               /\ UNCHANGED <<speech_queue, wtext>>
          ELSE /\ speech_queue' = Tail(speech_queue)
               /\ wpc' = AfterGet(Head(speech_queue))
               /\ wtext' = IF AfterGet(Head(speech_queue)) = "say"
                            THEN Head(speech_queue) ELSE "none"
    /\ UNCHANGED <<last_feedback, said, enqueued, stop_speech, engine, sunk, relpc>>
    /\ UNCHANGED notSp

\* Mutant of AfterSay: an exception of the sink ends the worker.
AfterSay_Dies(ok) == IF ok THEN "loop" ELSE "done"

\* lines 150-155: the exception of engine.say / runAndWait is swallowed (pass)
AfterSay(ok) == "loop"

\* lines 151-153: engine.say(payload); engine.runAndWait() returns or raises
WorkerSay ==
    /\ wpc = "say"
    /\ \E ok \in BOOLEAN :
          /\ sunk' = Append(sunk, [text |-> wtext, ok |-> ok])
          /\ wpc' = AfterSay(ok)
    /\ wtext' = "none"
    /\ UNCHANGED <<last_feedback, speech_queue, said, enqueued, stop_speech,
                   engine, relpc>>
    /\ UNCHANGED notSp

\* release() (lines 123-125): cap.release(); pose.close(); self._stop_speech = True
ReleaseFlag ==
    /\ relpc = "idle"
    /\ stop_speech' = TRUE
    /\ relpc' = "put"
    /\ UNCHANGED <<last_feedback, speech_queue, said, enqueued, engine, wpc,
                   wtext, sunk>>
    /\ UNCHANGED notSp

\* release() (line 126): self.speech_queue.put(None)
ReleasePut ==
    /\ relpc = "put"
    /\ speech_queue' = Append(speech_queue, "none")
    /\ relpc' = "join"
    /\ UNCHANGED <<last_feedback, said, enqueued, stop_speech, engine, wpc,
                   wtext, sunk>>
    /\ UNCHANGED notSp

\* Mutant of SpeechJoinTimeout: the worker is joined without a timeout.
SpeechJoinTimeout_Never == FALSE

\* self.speech_thread.join(timeout=2.0) gives up after two seconds
SpeechJoinTimeout == TRUE

\* release() (line 127): join(timeout=2.0) returns when the worker has ended or
\* the two seconds have passed
ReleaseJoin ==
    /\ relpc = "join"
    /\ wpc = "done" \/ SpeechJoinTimeout
    /\ relpc' = "returned"
    /\ UNCHANGED <<last_feedback, speech_queue, said, enqueued, stop_speech,
                   engine, wpc, wtext, sunk>>
    /\ UNCHANGED notSp

NextSpeech ==
    \/ \E text \in Texts : Speak(text)
    \/ WorkerInit
    \/ WorkerCheck
    \/ WorkerGet
    \/ WorkerSay
    \/ ReleaseFlag
    \/ ReleasePut
    \/ ReleaseJoin

\* A sequence with each run of equal consecutive entries collapsed to one.
RECURSIVE Collapsed(_)
Collapsed(s) ==
    IF Len(s) <= 1 THEN s
    ELSE IF s[1] = s[2] THEN Collapsed(Tail(s))
    ELSE <<s[1]>> \o Collapsed(Tail(s))

\* C13: the texts put on speech_queue are the texts _speak was called with,
\* None and empty texts removed and each run of equal consecutive texts
\* collapsed to one.
C13_ConsecutiveDedup == enqueued = Collapsed(SelectSeq(said, Truthy))

\* C13 witness: X, X, Y, X has been said: the second X is dropped, the last X,
\* after Y, is queued again.
C13_Witness ==
    /\ said = <<"X", "X", "Y", "X">>
    /\ enqueued = <<"X", "Y", "X">>

\* The texts the sink was called with, in order.
SunkTexts == [i \in 1..Len(sunk) |-> sunk[i].text]

\* 1 while the worker holds a text it has taken and not yet handed to the sink.
InHand == IF wpc = "say" THEN 1 ELSE 0

\* Before release() every text put on the queue is waiting, in the worker's
\* hand, or was handed to the sink, and the sink calls follow the queue order.
OncePerText ==
    /\ Len(sunk) + InHand <= Len(enqueued)
    /\ SunkTexts = SubSeq(enqueued, 1, Len(sunk))
    /\ wpc = "say" => wtext = enqueued[Len(sunk) + 1]
    /\ ~stop_speech =>
          /\ Len(sunk) + InHand + Len(speech_queue) = Len(enqueued)
          /\ speech_queue = SubSeq(enqueued, Len(sunk) + InHand + 1, Len(enqueued))

\* C21 as stated: while not shut down the worker takes the queued texts in FIFO
\* order and calls the sink once for each; a sink exception does not end the
\* loop, and the texts queued after the failing one still reach the sink.
C21_Claimed ==
    /\ OncePerText
    /\ wpc = "done" => stop_speech

\* C21 (amended): the same, for a worker whose pyttsx3.init() succeeded; a
\* worker without an engine keeps taking the texts and hands them to no sink.
\* In both cases the worker leaves its loop only after release().
C21_SinkFailureSurvived ==
    /\ engine # "none" => OncePerText
    /\ engine = "none" => sunk = <<>>
    /\ wpc = "done" => stop_speech

\* A sink call raised, and a text queued after it was handed to the sink, which
\* returned; release() has not been called.
C21_Witness ==
    /\ ~stop_speech
    /\ \E i, j \in 1..Len(sunk) : i < j /\ ~sunk[i].ok /\ sunk[j].ok

\* The analyzer with its worker and a caller of release(); _speak is called
\* with texts only (a call with None or '' changes nothing, lines 130-131).
NextShutdown ==
    \/ \E text \in {t \in Texts : Truthy(t)} : Speak(text)
    \/ WorkerInit
    \/ WorkerCheck
    \/ WorkerGet
    \/ WorkerSay
    \/ ReleaseFlag
    \/ ReleasePut
    \/ ReleaseJoin

\* A step of the speech worker other than the sink call: the thread is
\* scheduled, and queue.get returns within its half second.
WorkerStep == WorkerInit \/ WorkerCheck \/ WorkerGet

\* A step of release() after its first statement.
ReleaseStep == ReleasePut \/ ReleaseJoin

\* The worker and the caller of release() keep executing; the sink call may
\* never return, and nobody is obliged to call release() or _speak.
SpeechRuns == WF_vars(WorkerStep) /\ WF_vars(ReleaseStep)

\* release() has set the stop flag and put the sentinel.
ShutDown == relpc \in {"join", "returned"}

\* C22: once release() has set the stop flag and put the sentinel, the worker
\* leaves its loop unless it stays in a sink call for ever, with texts pending
\* or not; and release() returns even when the worker has not ended.
C22_ShutdownTerminates ==
    /\ ShutDown ~> (wpc = "done" \/ [](wpc = "say"))
    /\ (relpc # "idle") ~> (relpc = "returned")

\* release() has returned while the worker is still in a sink call and a text
\* is still queued in front of the sentinel.
C22_Witness ==
    /\ relpc = "returned"
    /\ wpc = "say"
    /\ Len(speech_queue) >= 2
    /\ Head(speech_queue) # "none"

\* ============================================================ smoothing windows

\* Values pushed on a window in a run.
MaxPush == 7

\* Samples pushed: angles in degrees, or pixel rows.
Samples == {0, 90, 170}

InitWindows ==
    /\ knee_win = <<>>
    /\ nose_win = <<>>
    /\ pushed = <<>>

\* One sample v reaches the windows: knee_history / back_history / y_history
\* (deque(maxlen=5).append) and nose_history (append, pop(0) beyond the capacity).
WindowPush(v) ==
    /\ Len(pushed) < MaxPush
    /\ knee_win' = Push(knee_win, v)
    /\ nose_win' = PushNose(nose_win, v)
    /\ pushed' = Append(pushed, v)
    /\ UNCHANGED notWin

NextWindows == \E v \in Samples : WindowPush(v)

\* The most recent min(n, capacity) of the n values pushed, oldest first.
Recent(capacity) ==
    SubSeq(pushed, Max2(1, Len(pushed) - capacity + 1), Len(pushed))

\* C20: after n pushes a window holds the most recent min(n, capacity) values,
\* oldest first (capacity 5 for the deques, max(5, SMOOTHING_WINDOW) for
\* nose_history), never more than capacity, and the value the classifiers use
\* is their arithmetic mean; after a single push v it is v.
C20_RunningMean ==
    /\ knee_win = Recent(HISTORY_LEN)
    /\ nose_win = Recent(Max2(5, SMOOTHING_WINDOW))
    /\ Len(knee_win) <= HISTORY_LEN
    /\ Len(nose_win) <= Max2(5, SMOOTHING_WINDOW)
    /\ pushed # <<>> =>
          /\ Mean60(knee_win) * Len(knee_win) = 60 * SumSeq(Recent(HISTORY_LEN))
          /\ Mean60(nose_win) * Len(nose_win) =
                60 * SumSeq(Recent(Max2(5, SMOOTHING_WINDOW)))
          /\ MeanJm(knee_win) * Len(knee_win) = JmScale * SumSeq(Recent(HISTORY_LEN))
    /\ Len(pushed) = 1 => Mean60(knee_win) = 60 * pushed[1]

\* C20 witness: more values than the capacity have been pushed, the oldest one
\* is gone and the window is full.
C20_Witness ==
    /\ Len(pushed) > HISTORY_LEN
    /\ Len(knee_win) = HISTORY_LEN
    /\ Len(nose_win) = Max2(5, SMOOTHING_WINDOW)
    /\ pushed[1] # knee_win[1]
    /\ Mean60(knee_win) # Mean60(SubSeq(pushed, 1, HISTORY_LEN))

Init ==
    /\ InitCamera /\ InitMobile /\ InitSquat /\ InitJump
    /\ InitFinalize /\ InitJumpMobile /\ InitSpeech /\ InitWindows
    /\ InitStream

SpecCamera == Init /\ [][NextCamera]_vars

SpecCameraLive == Init /\ [][NextCamera]_vars /\ CallersRun

SpecStream == Init /\ [][NextStream]_vars

SpecHealth == Init /\ [][NextHealth]_vars

SpecMobile == Init /\ [][NextMobile]_vars

SpecSquat == Init /\ [][NextSquat]_vars

SpecPair == Init /\ [][NextPair]_vars

SpecScenario == Init /\ [][NextScenario]_vars

SpecForm == Init /\ [][NextForm]_vars

SpecJump == Init /\ [][NextJump]_vars

InitReadFrame ==
    /\ InitCamera /\ InitMobile /\ InitSquat /\ InitPhase /\ InitFinalize
    /\ InitJumpMobile /\ InitSpeech /\ InitWindows /\ InitStream

SpecReadFrame == InitReadFrame /\ [][NextPhase]_vars

SpecBaseline == InitReadFrame /\ [][NextBaseline]_vars

SpecFinalize == Init /\ [][NextFinalize]_vars

SpecLanding == Init /\ [][NextLanding]_vars

SpecWindows == Init /\ [][NextWindows]_vars

SpecSpeech == Init /\ [][NextSpeech]_vars

SpecSpeechLive == Init /\ [][NextShutdown]_vars /\ SpeechRuns

SpecJumpMobile == Init /\ [][NextJumpMobile]_vars

SpecSession == Init /\ [][NextSession]_vars

=============================================================================
